---------------------------- MODULE Spec2Model ----------------------------
(***************************************************************************)
(* Model of the quantitative risk engine of the credit-decisioning         *)
(* backend: services/credit_models.py (rating, LGD, EAD models and the     *)
(* CreditModelService that runs them), services/calculations.py (RWA,      *)
(* RAROC, pricing, grade lookup) and the batch rating endpoint of          *)
(* api/model_inference.py.                                                 *)
(*                                                                         *)
(* Real numbers.  Python floats are modelled as decimal fixed-point        *)
(* integers: the real v is the integer round(v * Scale), Scale = 10^6.     *)
(* TLC integers are 32 bit, so products and quotients of two fixed-point   *)
(* numbers are computed limb-wise (FxMul, FxDiv).  math.exp, math.log,     *)
(* math.sqrt and math.erf are library functions; they are modelled by      *)
(* series / iterations that are accurate to a few units of 10^-6.          *)
(* Money amounts are inputs in whole units (a unit stands for 10^9 won)    *)
(* and are converted with Fx before they enter a formula.                  *)
(***************************************************************************)
EXTENDS Integers, Sequences, FiniteSets, TLC

\* one in fixed point
Scale == 1000 * 1000

Fx(n) == n * Scale

Abs(x) == IF x < 0 THEN -x ELSE x

Min(a, b) == IF b < a THEN b ELSE a

Max(a, b) == IF b > a THEN b ELSE a

\* |a| * |b| / Scale rounded to nearest, in base-1000 limbs (a, b >= 0)
MulMag(a, b) ==
    LET a1 == a \div 1000
        a0 == a % 1000
        b1 == b \div 1000
        b0 == b % 1000
    IN  a1 * b1 + (a1 * b0 + a0 * b1 + 500 + ((a0 * b0) \div 1000)) \div 1000

\* float product x * y
FxMul(a, b) ==
    IF a = 0 \/ b = 0 THEN 0
    ELSE IF (a < 0) = (b < 0) THEN MulMag(Abs(a), Abs(b))
    ELSE -MulMag(Abs(a), Abs(b))

\* n decimal digits of r / b (0 <= r < b), the last one rounded
RECURSIVE DivDigits(_, _, _)
DivDigits(r, b, n) ==
    IF n = 0 THEN (IF 2 * r >= b THEN 1 ELSE 0)
    ELSE ((r * 10) \div b) * (10 ^ (n - 1)) + DivDigits((r * 10) % b, b, n - 1)

\* |a| / |b| in fixed point (a >= 0, b > 0); a huge divisor is first scaled down
RECURSIVE DivMag(_, _)
DivMag(a, b) ==
    IF b > 200000000 THEN DivMag(a \div 10, b \div 10)
    ELSE (a \div b) * Scale + DivDigits(a % b, b, 6)

\* float quotient x / y for y # 0 (the callers model the fault at y = 0)
FxDiv(a, b) ==
    IF a = 0 THEN 0
    ELSE IF (a < 0) = (b < 0) THEN DivMag(Abs(a), Abs(b))
    ELSE -DivMag(Abs(a), Abs(b))

\* e and 1/e, ln 2
E_FX == 2718282
INV_E_FX == 367879
LN2_FX == 693147

\* Taylor series of e^f for 0 <= f < 1: term is f^(n-1)/(n-1)!
RECURSIVE ExpSeries(_, _, _)
ExpSeries(f, term, n) ==
    IF term = 0 \/ n > 14 THEN 0
    ELSE term + ExpSeries(f, FxMul(term, f) \div n, n + 1)

\* v * e^k for an integer k
RECURSIVE ExpShift(_, _)
ExpShift(v, k) ==
    IF k = 0 \/ v = 0 THEN v
    ELSE IF k > 0 THEN ExpShift(FxMul(v, E_FX), k - 1)
    ELSE ExpShift(FxMul(v, INV_E_FX), k + 1)

\* math.exp(x)
FxExp(x) ==
    LET k == x \div Scale
        f == x % Scale
    IN  ExpShift(ExpSeries(f, Scale, 1), k)

\* z + z^3/3 + z^5/5 + ... (pow is z^n)
RECURSIVE AtanhSeries(_, _, _)
AtanhSeries(z2, pow, n) ==
    IF pow = 0 \/ n > 17 THEN 0
    ELSE pow \div n + AtanhSeries(z2, FxMul(pow, z2), n + 2)

\* ln(x * 2^k) for x > 0, by reduction of x to [1, 2)
RECURSIVE LnReduce(_, _)
LnReduce(x, k) ==
    IF x < Scale THEN LnReduce(2 * x, k - 1)
    ELSE IF x >= 2 * Scale THEN LnReduce(x \div 2, k + 1)
    ELSE LET z == FxDiv(x - Scale, x + Scale)
         IN  k * LN2_FX + 2 * AtanhSeries(FxMul(z, z), z, 1)

\* math.log(x) for x > 0
FxLn(x) == LnReduce(x, 0)

\* Newton iteration from above for sqrt(x)
RECURSIVE SqrtNewton(_, _)
SqrtNewton(x, y) ==
    LET y2 == (y + FxDiv(x, y)) \div 2
    IN  IF y2 >= y THEN y ELSE SqrtNewton(x, y2)

\* math.sqrt(x) for x >= 0
FxSqrt(x) == IF x = 0 THEN 0 ELSE SqrtNewton(x, (x + Scale) \div 2 + 1)

\* Horner evaluation of a polynomial, coefficients highest degree first
RECURSIVE Horner(_, _, _, _)
Horner(cs, i, acc, q) ==
    IF i > Len(cs) THEN acc
    ELSE Horner(cs, i + 1, FxMul(acc, q) + cs[i], q)

Poly(cs, q) == Horner(cs, 2, cs[1], q)

\* math.erf(z): Abramowitz-Stegun 7.1.26, |error| < 2 * 10^-7
ERF_P == 327591
ERF_A == <<1061405, -1453152, 1421414, -284497, 254830, 0>>

FxErf(z) ==
    LET az == Abs(z)
        t == FxDiv(Scale, Scale + FxMul(ERF_P, az))
        e == Scale - FxMul(Poly(ERF_A, t), FxExp(-FxMul(az, az)))
    IN  IF z < 0 THEN -e ELSE e

(***************************************************************************)
(* Python semantics shared by the models.                                  *)
(***************************************************************************)

\* the value of an expression whose evaluation raised ZeroDivisionError
DIV_FAULT == -2147483647

\* Python's x / y: raises ZeroDivisionError at y = 0
PyDiv(a, b) == IF b = 0 THEN DIV_FAULT ELSE FxDiv(a, b)

\* dict.get(key, default)
DictGet(d, key, default) == IF key \in DOMAIN d THEN d[key] ELSE default

RECURSIVE SeqSum(_)
SeqSum(s) == IF s = <<>> THEN 0 ELSE Head(s) + SeqSum(Tail(s))

\* the exception a call ends with, given the values of its divisions
Raised(divisions) ==
    IF \E k \in DOMAIN divisions : divisions[k] = DIV_FAULT
    THEN "ZeroDivisionError" ELSE "none"

(***************************************************************************)
(* The state every call shares.  The tables are class attributes and       *)
(* module globals, built once when the modules are imported; the service   *)
(* is the one CreditModelService that api/model_inference.py creates at    *)
(* import.  The model functions read both through these variables.         *)
(***************************************************************************)

VARIABLES
    tables,         \* the process-wide tables, by name
    model_service   \* the fields of the shared CreditModelService

\* what dict.pop(key, default) leaves of the dict d
DictAfterPop(d, key, default) == [k \in DOMAIN d \ {key} |-> d[k]]

\* what dict.setdefault(key, default) leaves of the dict d
DictAfterSetdefault(d, key, default) ==
    IF key \in DOMAIN d THEN d ELSE (key :> default) @@ d

\* what dict.get(key, default) leaves of the dict d: a lookup stores nothing
DictAfterGet(d, key, default) == d

(***************************************************************************)
(* Process-wide tables of credit_models.py.                                *)
(***************************************************************************)

\* class RatingGrade: (grade_str, notch, pd), in definition order
RatingGrade ==
    << [grade_str |-> "AAA",  notch |-> 1,  pd |-> 200],
       [grade_str |-> "AA+",  notch |-> 2,  pd |-> 400],
       [grade_str |-> "AA",   notch |-> 3,  pd |-> 600],
       [grade_str |-> "AA-",  notch |-> 4,  pd |-> 1000],
       [grade_str |-> "A+",   notch |-> 5,  pd |-> 1500],
       [grade_str |-> "A",    notch |-> 6,  pd |-> 2500],
       [grade_str |-> "A-",   notch |-> 7,  pd |-> 4500],
       [grade_str |-> "BBB+", notch |-> 8,  pd |-> 7000],
       [grade_str |-> "BBB",  notch |-> 9,  pd |-> 11500],
       [grade_str |-> "BBB-", notch |-> 10, pd |-> 18500],
       [grade_str |-> "BB+",  notch |-> 11, pd |-> 30000],
       [grade_str |-> "BB",   notch |-> 12, pd |-> 48000],
       [grade_str |-> "BB-",  notch |-> 13, pd |-> 75000],
       [grade_str |-> "B+",   notch |-> 14, pd |-> 120000],
       [grade_str |-> "B",    notch |-> 15, pd |-> 200000],
       [grade_str |-> "B-",   notch |-> 16, pd |-> 300000],
       [grade_str |-> "CCC",  notch |-> 17, pd |-> 500000],
       [grade_str |-> "CC",   notch |-> 18, pd |-> 750000],
       [grade_str |-> "C",    notch |-> 19, pd |-> 900000],
       [grade_str |-> "D",    notch |-> 20, pd |-> 1000000] >>

\* CorporateRatingModel.INDUSTRY_RISK
INDUSTRY_RISK ==
    ("IND001" :> 800000) @@ ("IND002" :> 850000) @@ ("IND003" :> 1000000) @@
    ("IND004" :> 1000000) @@ ("IND005" :> 1000000) @@ ("IND006" :> 900000) @@
    ("IND007" :> 1100000) @@ ("IND008" :> 1300000) @@ ("IND009" :> 1500000) @@
    ("IND010" :> 1100000)

(***************************************************************************)
(* MDL_EAD: EADModel.                                                      *)
(***************************************************************************)

BASE_CCF ==
    ("TERM_LOAN" :> 1000000) @@ ("REVOLVING" :> 750000) @@
    ("GUARANTEE" :> 500000) @@ ("TRADE_FINANCE" :> 200000) @@
    ("CREDIT_CARD" :> 800000) @@ ("OVERDRAFT" :> 700000)

RATING_CCF_ADJ ==
    ("AAA" :> 900000) @@ ("AA+" :> 920000) @@ ("AA" :> 940000) @@
    ("AA-" :> 960000) @@ ("A+" :> 980000) @@ ("A" :> 1000000) @@
    ("A-" :> 1020000) @@ ("BBB+" :> 1040000) @@ ("BBB" :> 1060000) @@
    ("BBB-" :> 1080000) @@ ("BB+" :> 1100000) @@ ("BB" :> 1120000) @@
    ("BB-" :> 1140000) @@ ("B+" :> 1160000) @@ ("B" :> 1180000) @@
    ("B-" :> 1200000)

\* step 5: the shorter the residual maturity, the lower the CCF
maturity_adj(months_to_maturity) ==
    IF months_to_maturity <= 3 THEN 800000
    ELSE IF months_to_maturity <= 6 THEN 900000
    ELSE IF months_to_maturity <= 12 THEN 950000
    ELSE 1000000

\* step 6: sum(history) / len(history), evaluated only for a non-empty history
avg_util(utilization_history) ==
    PyDiv(SeqSum(utilization_history), Fx(Len(utilization_history)))

utilization_adj(utilization_history) ==
    IF utilization_history # <<>>
    THEN IF avg_util(utilization_history) = DIV_FAULT THEN DIV_FAULT
         ELSE IF avg_util(utilization_history) > 800000 THEN 1100000
         ELSE IF avg_util(utilization_history) < 300000 THEN 900000
         ELSE 1000000
    ELSE 1000000

\* step 7
distress_adj(is_distressed) == IF is_distressed THEN 1300000 ELSE 1000000

\* the clamp left out
clamp_ccf_absent(ccf) == ccf

\* step 8, second line: the CCF is clamped to [0.10, 1.00]
clamp_ccf(ccf) == Max(100000, Min(1000000, ccf))

\* the term-loan rule left out
term_loan_rule_absent(facility_type, committed_amount, ead, ccf) ==
    [ead |-> ead, ccf |-> ccf]

\* step 10: a term loan's EAD is its committed amount, its CCF 1.00
term_loan_rule(facility_type, committed_amount, ead, ccf) ==
    IF facility_type = "TERM_LOAN"
    THEN [ead |-> Fx(committed_amount), ccf |-> 1000000]
    ELSE [ead |-> ead, ccf |-> ccf]

\* 'utilization_rate' of the result
utilization_rate(outstanding, committed_amount) ==
    IF committed_amount > 0 THEN PyDiv(Fx(outstanding), Fx(committed_amount)) ELSE 0

\* EADModel.calculate_ead
calculate_ead(input_data) ==
    LET outstanding == input_data.outstanding_amount
        undrawn == Max(0, input_data.committed_amount - outstanding)
        base_ccf == DictGet(tables.BASE_CCF, input_data.facility_type, 750000)
        rating_adj == DictGet(tables.RATING_CCF_ADJ, input_data.customer_rating, 1060000)
        mat_adj == maturity_adj(input_data.months_to_maturity)
        util_adj == utilization_adj(input_data.utilization_history)
        dist_adj == distress_adj(input_data.is_distressed)
        final_ccf == clamp_ccf(FxMul(FxMul(FxMul(FxMul(base_ccf, rating_adj),
                                                 mat_adj), util_adj), dist_adj))
        ead == Fx(outstanding) + FxMul(final_ccf, Fx(undrawn))
        final == term_loan_rule(input_data.facility_type,
                                input_data.committed_amount, ead, final_ccf)
        util_rate == utilization_rate(outstanding, input_data.committed_amount)
        raised == Raised(<<util_adj, util_rate>>)
    IN  IF raised # "none" THEN [raised |-> raised]
        ELSE [raised |-> "none",
              model_id |-> "MDL_EAD",
              ead |-> final.ead,
              ccf |-> final.ccf,
              components |-> [outstanding |-> Fx(outstanding),
                              undrawn |-> Fx(undrawn),
                              committed |-> Fx(input_data.committed_amount),
                              undrawn_ead |-> FxMul(final.ccf, Fx(undrawn))],
              adjustments |-> [base_ccf |-> base_ccf,
                               rating_adj |-> rating_adj,
                               maturity_adj |-> mat_adj,
                               utilization_adj |-> util_adj,
                               distress_adj |-> dist_adj],
              utilization_rate |-> util_rate]

(***************************************************************************)
(* MDL_LGD: LGDModel.                                                      *)
(***************************************************************************)

COLLATERAL_RECOVERY_RATES ==
    ("NONE" :> 250000) @@ ("REAL_ESTATE" :> 700000) @@ ("DEPOSIT" :> 950000) @@
    ("GUARANTEE" :> 600000) @@ ("EQUIPMENT" :> 450000) @@ ("INVENTORY" :> 350000)

DISPOSAL_COSTS ==
    ("NONE" :> 50000) @@ ("REAL_ESTATE" :> 100000) @@ ("DEPOSIT" :> 10000) @@
    ("GUARANTEE" :> 30000) @@ ("EQUIPMENT" :> 150000) @@ ("INVENTORY" :> 200000)

CYCLE_ADJUSTMENTS ==
    ("EXPANSION" :> 850000) @@ ("NORMAL" :> 1000000) @@ ("RECESSION" :> 1250000)

SENIORITY_ADJUSTMENTS ==
    ("SENIOR" :> 1000000) @@ ("SUBORDINATED" :> 1300000)

\* step 5: total_recovery / exposure, 0.25 for a zero exposure, clamped to [0, 1]
base_recovery_rate(total_recovery, exposure_amount) ==
    LET rate == IF exposure_amount > 0
                THEN PyDiv(total_recovery, Fx(exposure_amount)) ELSE 250000
    IN  IF rate = DIV_FAULT THEN DIV_FAULT ELSE Max(0, Min(Scale, rate))

\* step 10, second line: the LGD is clamped to [5%, 95%]
clamp_lgd(lgd) == Max(50000, Min(950000, lgd))

\* the 95% cap left out
downturn_lgd_uncapped(final_lgd) == FxMul(final_lgd, 1250000)

\* step 11: downturn LGD, 25% above the LGD and at most 95%
downturn_lgd(final_lgd) == Min(950000, FxMul(final_lgd, 1250000))

\* 'secured_portion' of the result
secured_portion(secured_amount, exposure_amount) ==
    IF exposure_amount > 0 THEN PyDiv(Fx(secured_amount), Fx(exposure_amount)) ELSE 0

\* LGDModel.calculate_lgd
calculate_lgd(input_data) ==
    LET collateral_recovery_rate ==
            DictGet(tables.COLLATERAL_RECOVERY_RATES, input_data.collateral_type, 250000)
        secured_amount == Min(input_data.collateral_value, input_data.exposure_amount)
        secured_recovery == FxMul(Fx(secured_amount), collateral_recovery_rate)
        unsecured_amount ==
            Max(0, input_data.exposure_amount - input_data.collateral_value)
        unsecured_recovery == FxMul(Fx(unsecured_amount), 250000)
        disposal_cost_rate == DictGet(tables.DISPOSAL_COSTS, input_data.collateral_type, 50000)
        disposal_costs == FxMul(Fx(secured_amount), disposal_cost_rate)
        total_recovery == secured_recovery + unsecured_recovery - disposal_costs
        recovery == base_recovery_rate(total_recovery, input_data.exposure_amount)
        base_lgd == Scale - recovery
        cycle_adj == DictGet(tables.CYCLE_ADJUSTMENTS, input_data.economic_cycle, 1000000)
        seniority_adj == DictGet(tables.SENIORITY_ADJUSTMENTS, input_data.seniority, 1000000)
        industry_risk == DictGet(tables.INDUSTRY_RISK, input_data.industry_code, 1000000)
        final_lgd ==
            clamp_lgd(FxMul(FxMul(FxMul(base_lgd, cycle_adj), seniority_adj),
                            800000 + FxMul(200000, industry_risk)))
        portion == secured_portion(secured_amount, input_data.exposure_amount)
        raised == Raised(<<recovery, portion>>)
    IN  IF raised # "none" THEN [raised |-> raised]
        ELSE [raised |-> "none",
              model_id |-> "MDL_LGD",
              lgd |-> final_lgd,
              downturn_lgd |-> downturn_lgd(final_lgd),
              recovery_rate |-> Scale - final_lgd,
              components |-> [secured_recovery |-> secured_recovery,
                              unsecured_recovery |-> unsecured_recovery,
                              disposal_costs |-> disposal_costs,
                              total_recovery |-> total_recovery,
                              base_lgd |-> base_lgd],
              adjustments |-> [cycle_factor |-> cycle_adj,
                               seniority_factor |-> seniority_adj,
                               industry_factor |-> industry_risk],
              collateral_analysis |->
                  [collateral_type |-> input_data.collateral_type,
                   collateral_value |-> Fx(input_data.collateral_value),
                   secured_portion |-> portion,
                   collateral_recovery_rate |-> collateral_recovery_rate]]

(***************************************************************************)
(* Common helpers of credit_models.py.                                     *)
(***************************************************************************)

\* sigmoid(x) = 1 / (1 + exp(-x)).  For x < 0 the same real number is
\* computed as exp(x) / (1 + exp(x)), which keeps exp within 32 bits.
sigmoid(x) ==
    IF x >= 0 THEN FxDiv(Scale, Scale + FxExp(-x))
    ELSE FxDiv(FxExp(x), Scale + FxExp(x))

\* normalize(value, min_val, max_val): min-max normalisation into [0, 1]
normalize(value, min_val, max_val) ==
    IF max_val <= min_val THEN 500000
    ELSE Max(0, Min(Scale, PyDiv(value - min_val, max_val - min_val)))

\* int(x) for x >= 0: truncation
PyInt(x) == x \div Scale

\* round(x, 1) for x >= 0: to the nearest tenth, a tie to the even tenth
PyRound1(x) ==
    LET tenths == x \div 100000
        rest == x % 100000
    IN  IF rest > 50000 \/ (rest = 50000 /\ tenths % 2 = 1)
        THEN (tenths + 1) * 100000
        ELSE tenths * 100000

\* notch of a grade string, 0 for a string that is no grade
RECURSIVE NotchFrom(_, _)
NotchFrom(grade_str, i) ==
    IF i > Len(tables.RatingGrade) THEN 0
    ELSE IF tables.RatingGrade[i].grade_str = grade_str THEN tables.RatingGrade[i].notch
    ELSE NotchFrom(grade_str, i + 1)

Notch(grade_str) == NotchFrom(grade_str, 1)

\* GRADE_PD_MAP of credit_models.py: reference PD of a grade string
GradePd(grade_str) == tables.RatingGrade[Notch(grade_str)].pd

(***************************************************************************)
(* MDL_CORP_RATING: CorporateRatingModel.                                  *)
(***************************************************************************)

COEFFICIENTS ==
    [debt_ratio |-> -800000, current_ratio |-> 500000,
     interest_coverage |-> 700000, roa |-> 600000, roe |-> 400000,
     operating_margin |-> 500000, sales_growth |-> 300000,
     ebitda_margin |-> 400000, cash_ratio |-> 300000,
     years_in_business |-> 400000, is_listed |-> 500000,
     has_audit |-> 300000, ceo_experience |-> 200000,
     relationship_length |-> 300000, overdraft_penalty |-> -1500000,
     industry_factor |-> 500000]

INTERCEPT == 500000

\* the guard on the denominator left out
debt_ratio_unguarded(i) == PyDiv(Fx(i.total_liabilities), Fx(i.total_equity))

\* a ratio n / d that is taken only when d > 0, else the fallback constant
debt_ratio(i) ==
    IF i.total_equity > 0
    THEN PyDiv(Fx(i.total_liabilities), Fx(i.total_equity)) ELSE 5000000

current_ratio(i) ==
    IF i.current_liabilities > 0
    THEN PyDiv(Fx(i.current_assets), Fx(i.current_liabilities)) ELSE 1000000

interest_coverage(i) ==
    IF i.interest_expense > 0
    THEN PyDiv(Fx(i.operating_income), Fx(i.interest_expense)) ELSE 10000000

roa(i) ==
    IF i.total_assets > 0 THEN PyDiv(Fx(i.net_income), Fx(i.total_assets)) ELSE 0

roe(i) ==
    IF i.total_equity > 0 THEN PyDiv(Fx(i.net_income), Fx(i.total_equity)) ELSE 0

operating_margin(i) ==
    IF i.sales > 0 THEN PyDiv(Fx(i.operating_income), Fx(i.sales)) ELSE 0

ebitda_margin(i) ==
    IF i.sales > 0 THEN PyDiv(Fx(i.ebitda), Fx(i.sales)) ELSE 0

cash_ratio(i) ==
    IF i.current_liabilities > 0
    THEN PyDiv(Fx(i.cash_and_equivalents), Fx(i.current_liabilities)) ELSE 500000

sales_growth(i) ==
    IF i.total_assets > 0 THEN PyDiv(Fx(i.sales), Fx(i.total_assets)) ELSE 500000

\* CorporateRatingModel.calculate_financial_ratios
calculate_financial_ratios(i) ==
    [debt_ratio |-> debt_ratio(i),
     current_ratio |-> current_ratio(i),
     interest_coverage |-> interest_coverage(i),
     roa |-> roa(i),
     roe |-> roe(i),
     operating_margin |-> operating_margin(i),
     ebitda_margin |-> ebitda_margin(i),
     cash_ratio |-> cash_ratio(i),
     sales_growth |-> sales_growth(i)]

\* CorporateRatingModel.normalize_ratios
normalize_ratios(ratios) ==
    [debt_ratio |-> Scale - normalize(ratios.debt_ratio, 0, 5000000),
     current_ratio |-> normalize(ratios.current_ratio, 0, 3000000),
     interest_coverage |-> normalize(ratios.interest_coverage, 0, 20000000),
     roa |-> normalize(ratios.roa, -100000, 200000),
     roe |-> normalize(ratios.roe, -200000, 400000),
     operating_margin |-> normalize(ratios.operating_margin, -100000, 300000),
     ebitda_margin |-> normalize(ratios.ebitda_margin, 0, 400000),
     cash_ratio |-> normalize(ratios.cash_ratio, 0, 1000000),
     sales_growth |-> normalize(ratios.sales_growth, 0, 2000000)]

\* step 2: sum of normalized ratio times coefficient over the ratio names
RECURSIVE financial_score(_, _)
financial_score(norm_ratios, names) ==
    IF names = {} THEN 0
    ELSE LET n == CHOOSE x \in names : TRUE
         IN  FxMul(norm_ratios[n], DictGet(tables.COEFFICIENTS, n, 0))
                 + financial_score(norm_ratios, names \ {n})

\* step 4: the overdraft penalty, capped at 1.0 (0 without any overdraft)
overdraft_penalty(i) ==
    IF i.overdraft_count_12m > 0 \/ i.max_overdraft_days > 0
    THEN Min(FxMul(Fx(i.overdraft_count_12m), 100000)
                 + FxMul(PyDiv(Fx(i.max_overdraft_days), Fx(30)), 200000),
             Scale)
    ELSE 0

\* step 8: the PD is brought into [0.02%, 100%]
clamp_pd(pd) == Max(200, Min(Scale, pd))

\* the comparison turned around
RECURSIVE pd_to_grade_from_flipped(_, _)
pd_to_grade_from_flipped(pd, i) ==
    IF i > Len(tables.RatingGrade) THEN "D"
    ELSE IF pd >= FxMul(tables.RatingGrade[i].pd, 1300000) THEN tables.RatingGrade[i].grade_str
    ELSE pd_to_grade_from_flipped(pd, i + 1)

\* the scan without the 30% slack on the reference PD
RECURSIVE pd_to_grade_from_no_slack(_, _)
pd_to_grade_from_no_slack(pd, i) ==
    IF i > Len(tables.RatingGrade) THEN "D"
    ELSE IF pd <= tables.RatingGrade[i].pd THEN tables.RatingGrade[i].grade_str
    ELSE pd_to_grade_from_no_slack(pd, i + 1)

\* CorporateRatingModel._pd_to_grade, scanning RatingGrade from position i
RECURSIVE pd_to_grade_from(_, _)
pd_to_grade_from(pd, i) ==
    IF i > Len(tables.RatingGrade) THEN "D"
    ELSE IF pd <= FxMul(tables.RatingGrade[i].pd, 1300000) THEN tables.RatingGrade[i].grade_str
    ELSE pd_to_grade_from(pd, i + 1)

_pd_to_grade(pd) == pd_to_grade_from(pd, 1)

\* step 10: the 1000-point score
score_1000(pd) == PyInt(Max(Fx(100), Min(Fx(1000), FxMul(Scale - pd, Fx(1000)))))

\* the point-in-time PD of a rating result
pit_pd(pd, industry_risk) == FxMul(pd, industry_risk)

\* CorporateRatingModel.calculate_score
corporate_calculate_score(input_data) ==
    LET raw_ratios == calculate_financial_ratios(input_data)
        raised == Raised(<<raw_ratios.debt_ratio, raw_ratios.current_ratio,
                           raw_ratios.interest_coverage, raw_ratios.roa,
                           raw_ratios.roe, raw_ratios.operating_margin,
                           raw_ratios.ebitda_margin, raw_ratios.cash_ratio,
                           raw_ratios.sales_growth>>)
        norm_ratios == normalize_ratios(raw_ratios)
        fin_score == financial_score(norm_ratios, DOMAIN norm_ratios)
        financial_details ==
            [n \in DOMAIN norm_ratios |->
                [raw |-> raw_ratios[n],
                 normalized |-> norm_ratios[n],
                 coefficient |-> DictGet(tables.COEFFICIENTS, n, 0),
                 contribution |->
                     FxMul(norm_ratios[n], DictGet(tables.COEFFICIENTS, n, 0))]]
        years_contrib ==
            FxMul(normalize(Fx(input_data.years_in_business), 0, Fx(30)),
                  tables.COEFFICIENTS.years_in_business)
        listed_contrib ==
            FxMul(IF input_data.is_listed THEN Scale ELSE 0, tables.COEFFICIENTS.is_listed)
        audit_contrib ==
            FxMul(IF input_data.has_external_audit THEN Scale ELSE 0,
                  tables.COEFFICIENTS.has_audit)
        ceo_contrib ==
            FxMul(normalize(Fx(input_data.ceo_experience_years), 0, Fx(30)),
                  tables.COEFFICIENTS.ceo_experience)
        nonfinancial_score ==
            years_contrib + listed_contrib + audit_contrib + ceo_contrib
        rel_contrib ==
            FxMul(normalize(Fx(input_data.months_with_bank), 0, Fx(120)),
                  tables.COEFFICIENTS.relationship_length)
        behavioral_score ==
            rel_contrib
                + FxMul(overdraft_penalty(input_data), tables.COEFFICIENTS.overdraft_penalty)
        industry_risk == DictGet(tables.INDUSTRY_RISK, input_data.industry_code, 1000000)
        industry_adj == FxMul(Scale - industry_risk, tables.COEFFICIENTS.industry_factor)
        raw_score ==
            INTERCEPT + fin_score + nonfinancial_score + behavioral_score
                + industry_adj
        pd_logit == FxMul(-2500000, raw_score) + 1500000
        pd == clamp_pd(sigmoid(pd_logit))
    IN  IF raised # "none" THEN [raised |-> raised]
        ELSE [raised |-> "none",
              model_id |-> "MDL_CORP_RATING",
              raw_score |-> raw_score,
              score_1000 |-> score_1000(pd),
              pd |-> pd,
              ttc_pd |-> pd,
              pit_pd |-> pit_pd(pd, industry_risk),
              grade |-> _pd_to_grade(pd),
              components |->
                  [financial |-> [score |-> fin_score,
                                  details |-> financial_details],
                   nonfinancial |-> [score |-> nonfinancial_score,
                                     years_in_business |-> years_contrib,
                                     is_listed |-> listed_contrib,
                                     has_audit |-> audit_contrib,
                                     ceo_experience |-> ceo_contrib],
                   behavioral |-> [score |-> behavioral_score,
                                   relationship_length |-> rel_contrib],
                   industry_adjustment |-> industry_adj]]

(***************************************************************************)
(* MDL_RETAIL_RATING: RetailRatingModel.  Its money inputs are whole       *)
(* millions of won, so the won thresholds of the tables are in millions.   *)
(***************************************************************************)

\* float('inf')
INF == 2147483647

\* RetailRatingModel.SCORECARD: (low, high) -> score, in dict order
SCORECARD ==
    [sales_bracket |->
         << <<0, 50, 30>>, <<50, 100, 50>>, <<100, 300, 70>>,
            <<300, 500, 85>>, <<500, 1000, 95>>, <<1000, INF, 100>> >>,
     years_bracket |->
         << <<0, 1, 20>>, <<1, 3, 40>>, <<3, 5, 60>>, <<5, 10, 80>>,
            <<10, INF, 100>> >>,
     cb_bracket |->
         << <<0, 500, 10>>, <<500, 600, 30>>, <<600, 700, 50>>,
            <<700, 800, 75>>, <<800, 900, 90>>, <<900, 1001, 100>> >>,
     dti_bracket |->
         << <<Fx(0), Fx(30), 100>>, <<Fx(30), Fx(50), 80>>, <<Fx(50), Fx(70), 60>>,
            <<Fx(70), Fx(100), 40>>, <<Fx(100), Fx(150), 20>>,
            <<Fx(150), INF, 10>> >>]

WEIGHTS ==
    [sales |-> 200000, years |-> 150000, cb_score |-> 300000,
     dti |-> 150000, relationship |-> 100000, behavioral |-> 100000]

\* RetailRatingModel._get_bracket_score, scanning from position i
RECURSIVE bracket_score_from(_, _, _)
bracket_score_from(value, brackets, i) ==
    IF i > Len(brackets) THEN 50
    ELSE IF brackets[i][1] <= value /\ value < brackets[i][2] THEN brackets[i][3]
    ELSE bracket_score_from(value, brackets, i + 1)

_get_bracket_score(value, brackets) == bracket_score_from(value, brackets, 1)

\* step 4: debt-to-income in percent, 100 without income information
dti(i) ==
    IF i.monthly_income > 0
    THEN LET monthly_debt == PyDiv(Fx(i.total_debt), Fx(12))
         IN  FxMul(PyDiv(monthly_debt, Fx(i.monthly_income)), Fx(100))
    ELSE Fx(100)

\* the balance bonus added without the cap at 100
relationship_score_uncapped(i) ==
    LET rel_score == Min(Fx(100), FxMul(PyDiv(Fx(i.months_with_bank), Fx(60)), Fx(100)))
    IN  IF i.average_balance > 10 THEN rel_score + Fx(10) ELSE rel_score

\* step 5: relationship score
relationship_score(i) ==
    LET rel_score == Min(Fx(100), FxMul(PyDiv(Fx(i.months_with_bank), Fx(60)), Fx(100)))
    IN  IF i.average_balance > 10 THEN Min(Fx(100), rel_score + Fx(10)) ELSE rel_score

\* step 6: behavioral score
behavioral_score(i) ==
    LET after_count == IF i.overdraft_count_12m > 0
                       THEN 100 - Min(50, i.overdraft_count_12m * 10) ELSE 100
        after_days == IF i.max_overdraft_days > 0
                      THEN after_count - Min(30, i.max_overdraft_days) ELSE after_count
    IN  Fx(Max(0, after_days))

\* step 7: weighted sum of the six sub-scores
RECURSIVE weighted_sum(_, _)
weighted_sum(scores, keys) ==
    IF keys = {} THEN 0
    ELSE LET k == CHOOSE x \in keys : TRUE
         IN  FxMul(scores[k], tables.WEIGHTS[k]) + weighted_sum(scores, keys \ {k})

\* step 8: the industry adjustment divides the score by the risk multiplier
industry_adjusted(total_score, industry_risk) == PyDiv(total_score, industry_risk)

\* step 9: five points for collateral, up to 100
collateral_bonus(total_score, has_collateral, collateral_value) ==
    IF has_collateral /\ collateral_value > 0
    THEN Min(Fx(100), total_score + Fx(5)) ELSE total_score

\* step 10: PD = 0.30 * exp(-0.05 * score), brought into [0.02%, 30%]
retail_pd(total_score) ==
    Max(200, Min(300000, FxMul(300000, FxExp(-FxMul(50000, total_score)))))

\* RetailRatingModel._score_to_grade
_score_to_grade(score) ==
    IF score >= Fx(95) THEN "AAA" ELSE IF score >= Fx(90) THEN "AA+"
    ELSE IF score >= Fx(85) THEN "AA" ELSE IF score >= Fx(80) THEN "AA-"
    ELSE IF score >= Fx(75) THEN "A+" ELSE IF score >= Fx(70) THEN "A"
    ELSE IF score >= Fx(65) THEN "A-" ELSE IF score >= Fx(60) THEN "BBB+"
    ELSE IF score >= Fx(55) THEN "BBB" ELSE IF score >= Fx(50) THEN "BBB-"
    ELSE IF score >= Fx(45) THEN "BB+" ELSE IF score >= Fx(40) THEN "BB"
    ELSE IF score >= Fx(35) THEN "BB-" ELSE IF score >= Fx(30) THEN "B+"
    ELSE IF score >= Fx(25) THEN "B" ELSE IF score >= Fx(20) THEN "B-"
    ELSE IF score >= Fx(15) THEN "CCC" ELSE IF score >= Fx(10) THEN "CC"
    ELSE IF score >= Fx(5) THEN "C" ELSE "D"

\* RetailRatingModel.calculate_score
retail_calculate_score(input_data) ==
    LET dti_value == dti(input_data)
        scores ==
            [sales |-> Fx(_get_bracket_score(input_data.annual_sales,
                                             tables.SCORECARD.sales_bracket)),
             years |-> Fx(_get_bracket_score(input_data.years_in_business,
                                             tables.SCORECARD.years_bracket)),
             cb_score |-> Fx(_get_bracket_score(input_data.owner_credit_score,
                                                tables.SCORECARD.cb_bracket)),
             dti |-> Fx(_get_bracket_score(dti_value, tables.SCORECARD.dti_bracket)),
             relationship |-> relationship_score(input_data),
             behavioral |-> behavioral_score(input_data)]
        weighted == weighted_sum(scores, DOMAIN tables.WEIGHTS)
        industry_risk == DictGet(tables.INDUSTRY_RISK, input_data.industry_code, 1000000)
        adjusted == industry_adjusted(weighted, industry_risk)
        total_score == collateral_bonus(adjusted, input_data.has_collateral,
                                        input_data.collateral_value)
        pd == retail_pd(total_score)
        raised == Raised(<<dti_value, adjusted>>)
    IN  IF raised # "none" THEN [raised |-> raised]
        ELSE [raised |-> "none",
              model_id |-> "MDL_RETAIL_RATING",
              score_100 |-> PyRound1(total_score),
              score_1000 |-> PyInt(FxMul(total_score, Fx(10))),
              pd |-> pd,
              ttc_pd |-> pd,
              pit_pd |-> pit_pd(pd, industry_risk),
              grade |-> _score_to_grade(total_score),
              components |-> [sales_score |-> scores.sales,
                              years_score |-> scores.years,
                              cb_score |-> scores.cb_score,
                              dti_score |-> scores.dti,
                              relationship_score |-> scores.relationship,
                              behavioral_score |-> scores.behavioral],
              adjustments |-> [industry_factor |-> industry_risk,
                               collateral_bonus |->
                                   IF input_data.has_collateral THEN 5 ELSE 0]]

(***************************************************************************)
(* calculations.py: the grade table and the grade lookups.                 *)
(***************************************************************************)

\* GRADE_PD_MAP of calculations.py as (grade, pd) items in dict order
GRADE_PD_MAP ==
    << <<"AAA", 200>>, <<"AA+", 400>>, <<"AA", 600>>, <<"AA-", 1000>>,
       <<"A+", 1500>>, <<"A", 2500>>, <<"A-", 4500>>,
       <<"BBB+", 7000>>, <<"BBB", 11500>>, <<"BBB-", 18500>>,
       <<"BB+", 30000>>, <<"BB", 48000>>, <<"BB-", 75000>>,
       <<"B+", 120000>>, <<"B", 200000>>, <<"B-", 300000>> >>

\* sorted(items, key=lambda x: x[1]): stable insertion sort on the PD
RECURSIVE InsertByPd(_, _)
InsertByPd(item, sorted) ==
    IF sorted = <<>> THEN <<item>>
    ELSE IF item[2] < Head(sorted)[2] THEN <<item>> \o sorted
    ELSE <<Head(sorted)>> \o InsertByPd(item, Tail(sorted))

RECURSIVE SortedByPd(_)
SortedByPd(items) ==
    IF items = <<>> THEN <<>>
    ELSE InsertByPd(items[Len(items)], SortedByPd(SubSeq(items, 1, Len(items) - 1)))

\* get_grade_from_pd, scanning the sorted items from position i
RECURSIVE grade_from_pd_from(_, _, _)
grade_from_pd_from(pd, items, i) ==
    IF i > Len(items) THEN "B-"
    ELSE IF pd <= FxMul(items[i][2], 1500000) THEN items[i][1]
    ELSE grade_from_pd_from(pd, items, i + 1)

get_grade_from_pd(pd) == grade_from_pd_from(pd, SortedByPd(tables.GRADE_PD_MAP), 1)

\* get_pd_from_grade
RECURSIVE pd_from_grade_from(_, _)
pd_from_grade_from(grade, i) ==
    IF i > Len(tables.GRADE_PD_MAP) THEN 100000
    ELSE IF tables.GRADE_PD_MAP[i][1] = grade THEN tables.GRADE_PD_MAP[i][2]
    ELSE pd_from_grade_from(grade, i + 1)

get_pd_from_grade(grade) == pd_from_grade_from(grade, 1)

(***************************************************************************)
(* calculations.py: calculate_rwa (Basel IRB formula).                     *)
(***************************************************************************)

\* asset correlation R
asset_correlation(pd) ==
    LET e_pd == Scale - FxExp(-FxMul(Fx(50), pd))
        e_50 == Scale - FxExp(-Fx(50))
    IN  PyDiv(FxMul(120000, e_pd), e_50)
            + FxMul(240000, Scale - PyDiv(e_pd, e_50))

\* the PD whose logarithm enters the maturity adjustment: floored at 0.0001
floor_pd_for_log(pd) == Max(pd, 100)

\* maturity adjustment b
maturity_b(pd) ==
    LET t == 118520 - FxMul(54780, FxLn(floor_pd_for_log(pd)))
    IN  FxMul(t, t)

\* norm_cdf(x) = 0.5 * (1 + erf(x / sqrt(2)))
norm_cdf(x) == FxMul(500000, Scale + FxErf(PyDiv(x, FxSqrt(Fx(2)))))

\* coefficient lists a, b, c, d of norm_inv (index 0 of the lists is unused)
NORM_INV_A == <<-39696830, 220946098, -275928510, 138357752, -30664798, 2506628>>
NORM_INV_B == <<-54476099, 161585837, -155698980, 66801312, -13280682>>
NORM_INV_C == <<-7785, -322396, -2400758, -2549733, 4374664, 2938164>>
NORM_INV_D == <<7785, 322467, 2445134, 3754409>>
P_LOW == 24250

\* the lower tail returned with the sign of the upper tail
norm_inv_tail_sign_lost(t) ==
    LET q == FxSqrt(FxMul(-Fx(2), FxLn(t)))
    IN  -PyDiv(Poly(NORM_INV_C, q), Poly(NORM_INV_D \o <<Scale>>, q))

\* the tail branch of norm_inv for a tail probability t = p or 1 - p
norm_inv_tail(t) ==
    LET q == FxSqrt(FxMul(-Fx(2), FxLn(t)))
    IN  PyDiv(Poly(NORM_INV_C, q), Poly(NORM_INV_D \o <<Scale>>, q))

\* norm_inv(p): -3.0 and 3.0 outside (0, 1), else the rational approximation
norm_inv(p) ==
    IF p <= 0 THEN -Fx(3)
    ELSE IF p >= Scale THEN Fx(3)
    ELSE IF p < P_LOW THEN norm_inv_tail(p)
    ELSE IF p <= Scale - P_LOW
    THEN LET q == p - 500000
             r == FxMul(q, q)
         IN  PyDiv(FxMul(Poly(NORM_INV_A, r), q), Poly(NORM_INV_B \o <<Scale>>, r))
    ELSE -norm_inv_tail(Scale - p)

\* the LGD factor left off the first term
capital_k_lgd_misplaced(pd, lgd) ==
    LET r == asset_correlation(pd)
        x == FxMul(FxSqrt(PyDiv(Scale, Scale - r)), norm_inv(pd))
                 + FxMul(FxSqrt(PyDiv(r, Scale - r)), norm_inv(999000))
    IN  norm_cdf(x) - FxMul(pd, lgd)

\* the probability handed to the quantile in g_pd = norm_inv(pd)
norm_inv_argument(pd) == pd

\* K before the maturity adjustment
capital_k(pd, lgd) ==
    LET r == asset_correlation(pd)
        g_pd == norm_inv(norm_inv_argument(pd))
        g_999 == norm_inv(999000)
        x == FxMul(FxSqrt(PyDiv(Scale, Scale - r)), g_pd)
                 + FxMul(FxSqrt(PyDiv(r, Scale - r)), g_999)
    IN  FxMul(lgd, norm_cdf(x)) - FxMul(pd, lgd)

\* k * (1 - 1.5 b)^(-1) * (1 + (M - 2.5) b)
maturity_adjusted_k(k, b, maturity_years) ==
    LET inv == PyDiv(Scale, Scale - FxMul(1500000, b))
    IN  IF inv = DIV_FAULT THEN DIV_FAULT
        ELSE FxMul(FxMul(k, inv), Scale + FxMul(maturity_years - 2500000, b))

\* the floor left out
floor_rwa_absent(rwa) == rwa

\* return max(rwa, 0)
floor_rwa(rwa) == Max(rwa, 0)

\* calculate_rwa(pd, lgd, ead, maturity_years)
calculate_rwa(pd, lgd, ead, maturity_years) ==
    LET k == maturity_adjusted_k(capital_k(pd, lgd), maturity_b(pd), maturity_years)
    IN  IF k = DIV_FAULT THEN DIV_FAULT
        ELSE floor_rwa(FxMul(FxMul(k, 12500000), ead))

(***************************************************************************)
(* calculations.py: expected loss, economic capital, calculate_raroc.      *)
(***************************************************************************)

\* calculate_expected_loss: pd * lgd * ead
calculate_expected_loss(pd, lgd, ead) == FxMul(FxMul(pd, lgd), ead)

\* capital_ratio default of calculate_economic_capital
CAPITAL_RATIO == 80000

\* calculate_economic_capital: rwa * capital_ratio
calculate_economic_capital(rwa, capital_ratio) == FxMul(rwa, capital_ratio)

\* the ratio taken without the guard on the denominator
raroc_ratio_unguarded(net_income, denominator) == PyDiv(net_income, denominator)

\* annual_net_income / ec if ec > 0 else 0 (and the same over rwa)
raroc_ratio(net_income, denominator) ==
    IF denominator > 0 THEN PyDiv(net_income, denominator) ELSE 0

\* calculate_raroc, the result record: a division by zero raises
raroc_result(i, annual_net_income, rwa, ec, raroc, rorwa) ==
    IF rwa = DIV_FAULT \/ Raised(<<raroc, rorwa>>) # "none"
    THEN [raised |-> "ZeroDivisionError"]
    ELSE [raised |-> "none",
          interest_revenue |-> FxMul(i.amount, i.rate),
          funding_cost |-> FxMul(i.amount, i.ftp_rate),
          opex |-> FxMul(i.amount, i.opex_rate),
          expected_loss |-> calculate_expected_loss(i.pd, i.lgd, i.amount),
          net_income |-> annual_net_income,
          rwa |-> rwa,
          economic_capital |-> ec,
          raroc |-> raroc,
          rorwa |-> rorwa]

\* calculate_raroc, the two ratios
raroc_from_capital(i, annual_net_income, rwa, ec) ==
    raroc_result(i, annual_net_income, rwa, ec,
                 raroc_ratio(annual_net_income, ec),
                 raroc_ratio(annual_net_income, rwa))

\* calculate_raroc, the economic capital
raroc_from_rwa(i, annual_net_income, rwa) ==
    raroc_from_capital(i, annual_net_income, rwa,
                       calculate_economic_capital(rwa, CAPITAL_RATIO))

\* calculate_raroc: revenue, costs and expected loss, then the RWA
calculate_raroc(i) ==
    raroc_from_rwa(i,
                   FxMul(i.amount, i.rate) - FxMul(i.amount, i.ftp_rate)
                       - FxMul(i.amount, i.opex_rate)
                       - calculate_expected_loss(i.pd, i.lgd, i.amount),
                   calculate_rwa(i.pd, i.lgd, i.amount, i.tenor_years))

(***************************************************************************)
(* calculations.py: calculate_pricing.                                     *)
(***************************************************************************)

\* STRATEGY_PRICING_ADJ, in basis points
STRATEGY_PRICING_ADJ ==
    ("EXPAND" :> -20) @@ ("SELECTIVE" :> 0) @@ ("MAINTAIN" :> 10) @@
    ("REDUCE" :> 30) @@ ("EXIT" :> 100)

\* strategy_code None (or empty): no strategy given
NoStrategy == ""

\* the strategy adjustment: table value in bp / 10000, 0 without a code
strategy_adj(strategy_code) ==
    IF strategy_code # NoStrategy
    THEN (DictGet(tables.STRATEGY_PRICING_ADJ, strategy_code, 0) * Scale) \div 10000
    ELSE 0

\* the discount granted whether or not the loan is collateralized
collateral_adj_always(has_collateral) == -3000

\* the collateral adjustment: -30bp for a collateralized loan
collateral_adj(has_collateral) == IF has_collateral THEN -3000 ELSE 0

\* calculate_pricing
calculate_pricing(i) ==
    LET el_spread == FxMul(i.pd, i.lgd)
        ul_spread == FxMul(FxMul(el_spread, 500000), i.hurdle_rate)
        credit_spread == el_spread + ul_spread
        s_adj == strategy_adj(i.strategy_code)
        c_adj == collateral_adj(i.has_collateral)
        system_rate ==
            i.base_rate + i.ftp_spread + credit_spread + i.opex_spread
                + i.target_margin
    IN  [raised |-> "none",
         base_rate |-> i.base_rate,
         ftp_spread |-> i.ftp_spread,
         credit_spread |-> credit_spread,
         el_spread |-> el_spread,
         ul_spread |-> ul_spread,
         opex_spread |-> i.opex_spread,
         target_margin |-> i.target_margin,
         strategy_adj |-> s_adj,
         collateral_adj |-> c_adj,
         system_rate |-> system_rate,
         final_rate |-> system_rate + s_adj + c_adj]

(***************************************************************************)
(* CreditModelService.run_full_assessment.                                 *)
(***************************************************************************)

\* the point-in-time PD taken in place of rating_result['pd']
assessment_pd_from_pit(rating_result) == rating_result.pit_pd

\* pd = rating_result['pd']
assessment_pd(rating_result) == rating_result.pd

\* x / ead if ead > 0 else 0: el_rate and rw of the risk metrics
per_ead(x, ead) == IF ead > 0 THEN PyDiv(x, ead) ELSE 0

\* MATURITY_DEFAULT: maturity_years of calculate_rwa when the caller gives none
MATURITY_DEFAULT == 2500000

\* run_full_assessment, the result record: a division by zero raises
assessment_record(rating_result, lgd_result, ead_result, pd, lgd, ead, el, rwa, el_rate, rw) ==
    IF Raised(<<rwa, el_rate, rw>>) # "none"
    THEN [raised |-> Raised(<<rwa, el_rate, rw>>)]
    ELSE [raised |-> "none",
          rating |-> rating_result,
          lgd |-> lgd_result,
          ead |-> ead_result,
          risk_metrics |-> [pd |-> pd,
                            lgd |-> lgd,
                            ead |-> ead,
                            el |-> el,
                            rwa |-> rwa,
                            el_rate |-> el_rate,
                            rw |-> rw]]

\* run_full_assessment, el_rate and rw
assessment_ratios(rating_result, lgd_result, ead_result, pd, lgd, ead, el, rwa) ==
    assessment_record(rating_result, lgd_result, ead_result, pd, lgd, ead, el, rwa,
                      per_ead(el, ead), per_ead(rwa, ead))

\* run_full_assessment, steps 4 and 5: el = pd * lgd * ead and the RWA
assessment_metrics(rating_result, lgd_result, ead_result, pd, lgd, ead) ==
    assessment_ratios(rating_result, lgd_result, ead_result, pd, lgd, ead,
                      FxMul(FxMul(pd, lgd), ead),
                      calculate_rwa(pd, lgd, ead, MATURITY_DEFAULT))

\* run_full_assessment from the three model results on; an exception of a
\* model leaves the method
assessment_of(rating_result, lgd_result, ead_result) ==
    IF rating_result.raised # "none" THEN [raised |-> rating_result.raised]
    ELSE IF lgd_result.raised # "none" THEN [raised |-> lgd_result.raised]
    ELSE IF ead_result.raised # "none" THEN [raised |-> ead_result.raised]
    ELSE assessment_metrics(rating_result, lgd_result, ead_result,
                            assessment_pd(rating_result),
                            lgd_result.lgd, ead_result.ead)

\* run_full_assessment(customer_type, rating_input, lgd_input, ead_input)
run_full_assessment(customer_type, rating_input, lgd_input, ead_input) ==
    assessment_of(IF customer_type = "CORPORATE"
                  THEN corporate_calculate_score(rating_input)
                  ELSE retail_calculate_score(rating_input),
                  calculate_lgd(lgd_input),
                  calculate_ead(ead_input))

(***************************************************************************)
(* api/model_inference.py: run_batch_rating.  Money of a customer row is   *)
(* in billions of won; a column value is NULL, a number or a text that is  *)
(* no number.                                                              *)
(***************************************************************************)

\* the value of a conversion float(x) or int(x) that raised ValueError
CONV_FAULT == -2147483646

Null == [kind |-> "null", val |-> 0]
Num(v) == [kind |-> "num", val |-> v]
NotANumber == [kind |-> "text", val |-> 0]

\* Python truth value of a column: None and 0 are false
Truthy(c) == (c.kind = "num" /\ c.val # 0) \/ c.kind = "text"

\* float(c) and int(c) of a column that is not None
PyFloat(c) == IF c.kind = "num" THEN c.val ELSE CONV_FAULT

\* float(c) * num / den, for the amounts derived from another column
TimesRatio(v, num, den) ==
    IF v = CONV_FAULT THEN CONV_FAULT ELSE (v * num) \div den

\* for customer_id in customer_ids[:10]
BATCH_LIMIT == 10

\* the slice taken without the limit
batch_slice_unlimited(customer_ids) == customer_ids

\* customer_ids[:10]
batch_slice(customer_ids) ==
    SubSeq(customer_ids, 1, Min(Len(customer_ids), BATCH_LIMIT))

\* the dict input_data built from a customer row
batch_input_data(customer) ==
    [total_assets |->
         IF Truthy(customer.total_assets) THEN PyFloat(customer.total_assets)
         ELSE 100,
     total_liabilities |->
         IF Truthy(customer.total_liabilities)
         THEN PyFloat(customer.total_liabilities) ELSE 60,
     total_equity |->
         IF Truthy(customer.total_equity) THEN PyFloat(customer.total_equity)
         ELSE 40,
     sales |-> IF Truthy(customer.sales) THEN PyFloat(customer.sales) ELSE 80,
     operating_income |->
         IF Truthy(customer.operating_income)
         THEN PyFloat(customer.operating_income) ELSE 8,
     net_income |->
         IF Truthy(customer.net_income) THEN PyFloat(customer.net_income) ELSE 5,
     ebitda |->
         IF Truthy(customer.operating_income)
         THEN TimesRatio(PyFloat(customer.operating_income), 15, 10) ELSE 12,
     interest_expense |->
         IF Truthy(customer.total_liabilities)
         THEN TimesRatio(PyFloat(customer.total_liabilities), 3, 100) ELSE 2,
     current_assets |->
         IF Truthy(customer.total_assets)
         THEN TimesRatio(PyFloat(customer.total_assets), 3, 10) ELSE 30,
     current_liabilities |->
         IF Truthy(customer.total_liabilities)
         THEN TimesRatio(PyFloat(customer.total_liabilities), 4, 10) ELSE 20,
     cash_and_equivalents |->
         IF Truthy(customer.total_assets)
         THEN TimesRatio(PyFloat(customer.total_assets), 1, 10) ELSE 10,
     years_in_business |->
         IF Truthy(customer.years_in_business)
         THEN PyFloat(customer.years_in_business) ELSE 10,
     industry_code |->
         IF customer.industry_code # "" THEN customer.industry_code ELSE "IND001",
     is_listed |-> Truthy(customer.is_listed),
     has_external_audit |-> TRUE,
     ceo_experience_years |-> 15,
     months_with_bank |-> 36,
     overdraft_count_12m |-> 0,
     max_overdraft_days |-> 0]

\* some conversion of the row raised
conversion_raised(d) ==
    CONV_FAULT \in {d.total_assets, d.total_liabilities, d.total_equity, d.sales,
                    d.operating_income, d.net_income, d.ebitda,
                    d.interest_expense, d.current_assets, d.current_liabilities,
                    d.cash_and_equivalents, d.years_in_business}

\* the row fetchone() gives when the query matches no customer (None)
NoRow == [customer_name |-> "Unknown"]

\* the entry of the except branch
batch_failure(customer_id, customer, e) ==
    [customer_id |-> customer_id,
     customer_name |-> customer.customer_name,
     success |-> FALSE,
     error |-> e]

\* the entry made from the result of the rating model
batch_rated(customer_id, customer, result) ==
    IF result.raised # "none" THEN batch_failure(customer_id, customer, result.raised)
    ELSE [customer_id |-> customer_id,
          customer_name |-> customer.customer_name,
          success |-> TRUE,
          grade |-> result.grade,
          pd |-> result.pd,
          score |-> result.score_1000]

\* the try block: the conversions, then the rating model
batch_try(customer_id, customer, input_data) ==
    IF conversion_raised(input_data)
    THEN batch_failure(customer_id, customer, "ValueError")
    ELSE batch_rated(customer_id, customer, corporate_calculate_score(input_data))

\* the entry appended to results for one customer id: the body of the loop
\* after the lookup
batch_entry(customer_id, customer) ==
    IF customer = NoRow
    THEN [customer_id |-> customer_id,
          success |-> FALSE,
          error |-> "Customer not found"]
    ELSE batch_try(customer_id, customer, batch_input_data(customer))

(***************************************************************************)
(* The shared state at import, and what a call leaves of it.  No model     *)
(* function assigns to a table or to a field of the service; the tables    *)
(* are only read, with dict.get, by subscript or by iteration.             *)
(***************************************************************************)

\* the tables as the imports of credit_models.py and calculations.py build them
TablesAtImport ==
    [RatingGrade |-> RatingGrade,
     GRADE_PD_MAP |-> GRADE_PD_MAP,
     INDUSTRY_RISK |-> INDUSTRY_RISK,
     COEFFICIENTS |-> COEFFICIENTS,
     SCORECARD |-> SCORECARD,
     WEIGHTS |-> WEIGHTS,
     COLLATERAL_RECOVERY_RATES |-> COLLATERAL_RECOVERY_RATES,
     DISPOSAL_COSTS |-> DISPOSAL_COSTS,
     CYCLE_ADJUSTMENTS |-> CYCLE_ADJUSTMENTS,
     SENIORITY_ADJUSTMENTS |-> SENIORITY_ADJUSTMENTS,
     BASE_CCF |-> BASE_CCF,
     RATING_CCF_ADJ |-> RATING_CCF_ADJ,
     STRATEGY_PRICING_ADJ |-> STRATEGY_PRICING_ADJ]

\* CreditModelService.__init__: the four models, named by their MODEL_ID
ServiceAtImport ==
    [corp_rating_model |-> "MDL_CORP_RATING",
     retail_rating_model |-> "MDL_RETAIL_RATING",
     lgd_model |-> "MDL_LGD",
     ead_model |-> "MDL_EAD"]

\* the dict d after one dict.get for each key of keys
RECURSIVE DictAfterGets(_, _, _)
DictAfterGets(d, keys, default) ==
    IF keys = {} THEN d
    ELSE LET k == CHOOSE x \in keys : TRUE
         IN  DictAfterGets(DictAfterGet(d, k, default), keys \ {k}, default)

\* the tables t after EADModel.calculate_ead
ead_tables_after(t, input_data) ==
    [t EXCEPT
        !.BASE_CCF = DictAfterGet(@, input_data.facility_type, 750000),
        !.RATING_CCF_ADJ = DictAfterGet(@, input_data.customer_rating, 1060000)]

\* the tables t after LGDModel.calculate_lgd
lgd_tables_after(t, input_data) ==
    [t EXCEPT
        !.COLLATERAL_RECOVERY_RATES =
            DictAfterGet(@, input_data.collateral_type, 250000),
        !.DISPOSAL_COSTS = DictAfterGet(@, input_data.collateral_type, 50000),
        !.CYCLE_ADJUSTMENTS = DictAfterGet(@, input_data.economic_cycle, 1000000),
        !.SENIORITY_ADJUSTMENTS = DictAfterGet(@, input_data.seniority, 1000000),
        !.INDUSTRY_RISK = DictAfterGet(@, input_data.industry_code, 1000000)]

\* the tables t after CorporateRatingModel.calculate_score
corporate_tables_after(t, input_data) ==
    [t EXCEPT
        !.COEFFICIENTS =
            DictAfterGets(@, DOMAIN normalize_ratios(calculate_financial_ratios(input_data)), 0),
        !.INDUSTRY_RISK = DictAfterGet(@, input_data.industry_code, 1000000)]

\* the tables t after RetailRatingModel.calculate_score
retail_tables_after(t, input_data) ==
    [t EXCEPT !.INDUSTRY_RISK = DictAfterGet(@, input_data.industry_code, 1000000)]

\* the tables t after calculations.calculate_pricing
pricing_tables_after(t, i) ==
    IF i.strategy_code # NoStrategy
    THEN [t EXCEPT !.STRATEGY_PRICING_ADJ = DictAfterGet(@, i.strategy_code, 0)]
    ELSE t

\* the tables t after CreditModelService.run_full_assessment
assessment_tables_after(t, customer_type, rating_input, lgd_input, ead_input) ==
    LET after_rating ==
            IF customer_type = "CORPORATE"
            THEN corporate_tables_after(t, rating_input)
            ELSE retail_tables_after(t, rating_input)
    IN  ead_tables_after(lgd_tables_after(after_rating, lgd_input), ead_input)

\* the tables t after one iteration of run_batch_rating: the rating model
\* runs when the customer was found and its columns converted
batch_tables_after(t, customer) ==
    IF customer = NoRow \/ conversion_raised(batch_input_data(customer)) THEN t
    ELSE corporate_tables_after(t, batch_input_data(customer))

(***************************************************************************)
(* The state machine: one call of a model function.  The state is the     *)
(* call being made and what it returned, next to the shared state.         *)
(***************************************************************************)

VARIABLES
    pc,       \* "idle" before the call, "done" after it returned or raised,
              \* "batch_loop" inside the loop of run_batch_rating
    fn,       \* the function called
    arg,      \* its input record
    ret,      \* its result; ret.raised names the exception, "none" for a return
    idx,      \* run_batch_rating: position of the loop in customer_ids[:10]
    results,  \* run_batch_rating: the local list results
    log,      \* the calls completed one after another, oldest first
    calls     \* the call each concurrent caller has in progress

vars == <<pc, fn, arg, ret, idx, results, tables, model_service, log, calls>>

\* the locals of run_batch_rating, untouched by every other call
batch_vars == <<idx, results>>

\* what a single call of a model function leaves alone
call_frame == <<idx, results, model_service, log, calls>>

\* money amounts range over 0 .. MaxAmount units
MaxAmount == 2
\* utilization histories have at most MaxHistoryLen entries
MaxHistoryLen == 1

\* values outside every table stand for invalid enumeration values
IndustryCodes == {"IND001", "IND003", "IND009", "IND999"}
FacilityTypes == DOMAIN BASE_CCF \cup {"LEASE"}
CustomerRatings == {"AAA", "BBB", "B-", "CCC", "NR"}
MaturityMonths == {3, 6, 12, 24}
UtilLevels == {200000, 900000}
Histories == UNION {[1..n -> UtilLevels] : n \in 0..MaxHistoryLen}
CollateralTypes == DOMAIN COLLATERAL_RECOVERY_RATES \cup {"PATENT"}
Seniorities == DOMAIN SENIORITY_ADJUSTMENTS \cup {"MEZZANINE"}
EconomicCycles == DOMAIN CYCLE_ADJUSTMENTS \cup {"BOOM"}

\* class EADInput
EADInput ==
    [committed_amount : 0..MaxAmount,
     outstanding_amount : 0..(MaxAmount + 1),
     facility_type : FacilityTypes,
     months_to_maturity : MaturityMonths,
     utilization_history : Histories,
     customer_rating : CustomerRatings,
     is_distressed : BOOLEAN]

\* class LGDInput (the fields calculate_lgd reads)
LGDInput ==
    [exposure_amount : 0..MaxAmount,
     collateral_type : CollateralTypes,
     collateral_value : 0..(MaxAmount + 1),
     seniority : Seniorities,
     industry_code : IndustryCodes,
     economic_cycle : EconomicCycles]

\* class CorporateRatingInput.  The financial figures are either zero or
\* those of a mid-sized firm; current assets, cash and EBITDA stay fixed.
CorporateRatingInput ==
    [total_assets : {0, 100},
     total_liabilities : {60, 250},
     total_equity : {0, 40},
     sales : {0, 80},
     operating_income : {8, 40},
     net_income : {5},
     ebitda : {12},
     interest_expense : {0, 2},
     current_assets : {30},
     current_liabilities : {0, 20},
     cash_and_equivalents : {10},
     years_in_business : {0, 15, 30},
     industry_code : IndustryCodes,
     is_listed : BOOLEAN,
     has_external_audit : {TRUE},
     ceo_experience_years : {10},
     months_with_bank : {12},
     overdraft_count_12m : {0, 12},
     max_overdraft_days : {0}]

\* class RetailRatingInput (the fields calculate_score reads)
RetailRatingInput ==
    [annual_sales : {0, 50, 1000},
     years_in_business : {0, 10},
     industry_code : IndustryCodes,
     owner_credit_score : {450, 950},
     total_debt : {0, 6, 36},
     monthly_income : {0, 1},
     months_with_bank : {12, 60},
     average_balance : {0, 20},
     overdraft_count_12m : {0, 6},
     max_overdraft_days : {0, 40},
     has_collateral : BOOLEAN,
     collateral_value : {0, 1}]

\* PDs at, just below and just above every grade boundary of both lookups
PdGrid ==
    {0, 100, Scale}
        \cup UNION {{RatingGrade[i].pd,
                     FxMul(RatingGrade[i].pd, 1300000),
                     FxMul(RatingGrade[i].pd, 1300000) + 1,
                     FxMul(RatingGrade[i].pd, 1500000),
                     FxMul(RatingGrade[i].pd, 1500000) + 1} \cap (0..Scale)
                    : i \in 1..Len(RatingGrade)}

\* inputs of calculate_rwa: PDs from 0 to 1, LGDs from 0 to 1, maturities
\* inside and outside the regulatory band of 1 to 5 years
RwaPds == {0, 100, 300, 1000, 11500, 30000, 100000, 200000, 250000, 300000,
           400000, 500000, 750000, 990000, Scale}
RwaLgds == {0, 50000, 450000, 950000}
RwaMaturities == {500000, 1000000, 2500000, 5000000, 7000000}
\* the EAD of an RWA call is a multiple, up to MaxMultiple, of a money amount
MaxMultiple == 3

RwaInput ==
    [pd : RwaPds,
     lgd : RwaLgds,
     ead : {Fx(n) : n \in 0..(MaxAmount + 1)},
     maturity_years : RwaMaturities]

StrategyCodes == DOMAIN STRATEGY_PRICING_ADJ \cup {NoStrategy, "HOLD"}

\* arguments of calculate_pricing, the rates at their default values
PricingInput ==
    [pd : {0, 11500, 300000},
     lgd : {450000, 950000},
     base_rate : {35000},
     ftp_spread : {5000},
     opex_spread : {2000},
     target_margin : {10000},
     strategy_code : StrategyCodes,
     has_collateral : BOOLEAN,
     hurdle_rate : {120000}]

\* arguments of calculate_raroc: amounts up to MaxAmount, opex_rate at its
\* default, PDs that make the RWA positive and PDs that floor it to 0
RarocInput ==
    [amount : {Fx(n) : n \in 0..MaxAmount},
     rate : {0, 50000},
     ftp_rate : {30000},
     pd : {0, 11500, 300000, Scale},
     lgd : {0, 450000},
     tenor_years : {1000000, 2500000},
     opex_rate : {5000}]

\* arguments of run_full_assessment: a few records of each input class, with
\* the rating input of the class that customer_type selects
AssessedCorporates ==
    {i \in CorporateRatingInput :
        /\ i.total_assets = 100 /\ i.total_liabilities = 60 /\ i.sales = 80
        /\ i.operating_income = 8 /\ i.interest_expense = 2
        /\ i.current_liabilities = 20 /\ i.years_in_business = 15
        /\ ~i.is_listed /\ i.overdraft_count_12m = 0
        /\ i.industry_code \in {"IND001", "IND009"}}

AssessedRetails ==
    {i \in RetailRatingInput :
        /\ i.annual_sales = 50 /\ i.years_in_business = 10
        /\ i.total_debt = 6 /\ i.monthly_income = 1 /\ i.months_with_bank = 60
        /\ i.average_balance = 20 /\ i.max_overdraft_days = 0
        /\ ~i.has_collateral /\ i.collateral_value = 0
        /\ i.industry_code \in {"IND003"}}

AssessedLgdInputs ==
    {i \in LGDInput :
        /\ i.exposure_amount = MaxAmount /\ i.collateral_value \in {0, 1}
        /\ i.collateral_type \in {"NONE", "REAL_ESTATE"}
        /\ i.seniority = "SENIOR" /\ i.industry_code = "IND001"
        /\ i.economic_cycle \in {"NORMAL", "RECESSION"}}

AssessedEadInputs ==
    {i \in EADInput :
        /\ i.committed_amount \in {0, MaxAmount}
        /\ i.outstanding_amount \in {0, 1}
        /\ i.facility_type \in {"TERM_LOAN", "REVOLVING"}
        /\ i.months_to_maturity = 12 /\ i.utilization_history = << >>
        /\ i.customer_rating = "BBB" /\ ~i.is_distressed}

FullAssessmentInput ==
    [customer_type : {"CORPORATE"}, rating_input : AssessedCorporates,
     lgd_input : AssessedLgdInputs, ead_input : AssessedEadInputs]
        \cup
    [customer_type : {"RETAIL"}, rating_input : AssessedRetails,
     lgd_input : AssessedLgdInputs, ead_input : AssessedEadInputs]

\* the customer table the batch queries: a complete row, a row of NULLs, a
\* row whose equity column holds no number; "C404" has no row
CustomerTable ==
    ("C001" :> [customer_name |-> "Alpha", industry_code |-> "IND003",
                total_assets |-> Num(200), total_liabilities |-> Num(100),
                total_equity |-> Num(100), sales |-> Num(80),
                operating_income |-> Num(8), net_income |-> Num(5),
                years_in_business |-> Num(15), is_listed |-> Num(1)])
    @@
    ("C002" :> [customer_name |-> "Beta", industry_code |-> "",
                total_assets |-> Null, total_liabilities |-> Null,
                total_equity |-> Null, sales |-> Null,
                operating_income |-> Null, net_income |-> Null,
                years_in_business |-> Null, is_listed |-> Null])
    @@
    ("C003" :> [customer_name |-> "Gamma", industry_code |-> "IND009",
                total_assets |-> Num(200), total_liabilities |-> Num(100),
                total_equity |-> NotANumber, sales |-> Num(80),
                operating_income |-> Num(8), net_income |-> Num(5),
                years_in_business |-> Num(15), is_listed |-> Num(0)])

\* db.execute(...).fetchone() of a lookup that does not fail
fetchone(customer_id) ==
    IF customer_id \in DOMAIN CustomerTable THEN CustomerTable[customer_id]
    ELSE NoRow

BatchIds == <<"C001", "C002", "C003", "C404">>

\* requests have at most MaxBatchLen customer ids
MaxBatchLen == 12

\* every request of up to two ids, and longer ones that cycle through the ids
BatchRequests ==
    UNION {[1..n -> {BatchIds[j] : j \in 1..Len(BatchIds)}] : n \in 0..2}
        \cup {[j \in 1..n |-> BatchIds[((j + k) % Len(BatchIds)) + 1]] :
                  n \in 3..MaxBatchLen, k \in 0..(Len(BatchIds) - 1)}

Init ==
    /\ pc = "idle"
    /\ fn = "none"
    /\ arg = [none |-> TRUE]
    /\ ret = [raised |-> "pending"]
    /\ idx = 0
    /\ results = << >>
    /\ tables = TablesAtImport
    /\ model_service = ServiceAtImport
    /\ log = << >>
    /\ calls = << >>

\* CreditModelService.run_ead
RunEad ==
    /\ pc = "idle"
    /\ \E input_data \in EADInput :
          /\ arg' = input_data
          /\ tables' = ead_tables_after(tables, input_data)
          /\ ret' = calculate_ead(input_data)
    /\ fn' = "calculate_ead"
    /\ pc' = "done"
    /\ UNCHANGED call_frame

\* CreditModelService.run_lgd
RunLgd ==
    /\ pc = "idle"
    /\ \E input_data \in LGDInput :
          /\ arg' = input_data
          /\ tables' = lgd_tables_after(tables, input_data)
          /\ ret' = calculate_lgd(input_data)
    /\ fn' = "calculate_lgd"
    /\ pc' = "done"
    /\ UNCHANGED call_frame

\* CreditModelService.run_corporate_rating
RunCorporateRating ==
    /\ pc = "idle"
    /\ \E input_data \in CorporateRatingInput :
          /\ arg' = input_data
          /\ tables' = corporate_tables_after(tables, input_data)
          /\ ret' = corporate_calculate_score(input_data)
    /\ fn' = "corporate_calculate_score"
    /\ pc' = "done"
    /\ UNCHANGED call_frame

\* CreditModelService.run_retail_rating
RunRetailRating ==
    /\ pc = "idle"
    /\ \E input_data \in RetailRatingInput :
          /\ arg' = input_data
          /\ tables' = retail_tables_after(tables, input_data)
          /\ ret' = retail_calculate_score(input_data)
    /\ fn' = "retail_calculate_score"
    /\ pc' = "done"
    /\ UNCHANGED call_frame

\* a call of CorporateRatingModel._pd_to_grade
PdToGrade ==
    /\ pc = "idle"
    /\ \E pd \in PdGrid :
          /\ arg' = [pd |-> pd]
          /\ tables' = tables
          /\ ret' = [raised |-> "none", grade |-> _pd_to_grade(pd)]
    /\ fn' = "_pd_to_grade"
    /\ pc' = "done"
    /\ UNCHANGED call_frame

\* a call of calculations.get_grade_from_pd
GetGradeFromPd ==
    /\ pc = "idle"
    /\ \E pd \in PdGrid :
          /\ arg' = [pd |-> pd]
          /\ tables' = tables
          /\ ret' = [raised |-> "none", grade |-> get_grade_from_pd(pd)]
    /\ fn' = "get_grade_from_pd"
    /\ pc' = "done"
    /\ UNCHANGED call_frame

\* a call of calculations.calculate_rwa
CalculateRwa ==
    /\ pc = "idle"
    /\ \E i \in RwaInput :
          /\ arg' = i
          /\ tables' = tables
          /\ ret' = LET rwa == calculate_rwa(i.pd, i.lgd, i.ead, i.maturity_years)
                    IN  IF rwa = DIV_FAULT THEN [raised |-> "ZeroDivisionError"]
                        ELSE [raised |-> "none", rwa |-> rwa]
    /\ fn' = "calculate_rwa"
    /\ pc' = "done"
    /\ UNCHANGED call_frame

\* a call of calculations.calculate_pricing
CalculatePricing ==
    /\ pc = "idle"
    /\ \E i \in PricingInput :
          /\ arg' = i
          /\ tables' = pricing_tables_after(tables, i)
          /\ ret' = calculate_pricing(i)
    /\ fn' = "calculate_pricing"
    /\ pc' = "done"
    /\ UNCHANGED call_frame

\* a call of calculations.calculate_raroc
CalculateRaroc ==
    /\ pc = "idle"
    /\ \E i \in RarocInput :
          /\ arg' = i
          /\ tables' = tables
          /\ ret' = calculate_raroc(i)
    /\ fn' = "calculate_raroc"
    /\ pc' = "done"
    /\ UNCHANGED call_frame

\* a call of CreditModelService.run_full_assessment
RunFullAssessment ==
    /\ pc = "idle"
    /\ \E i \in FullAssessmentInput :
          /\ arg' = i
          /\ tables' = assessment_tables_after(tables, i.customer_type, i.rating_input,
                                               i.lgd_input, i.ead_input)
          /\ ret' = run_full_assessment(i.customer_type, i.rating_input,
                                        i.lgd_input, i.ead_input)
    /\ fn' = "run_full_assessment"
    /\ pc' = "done"
    /\ UNCHANGED call_frame

\* run_batch_rating is called: results = []
BatchStart ==
    /\ pc = "idle"
    /\ \E customer_ids \in BatchRequests :
          arg' = [customer_ids |-> customer_ids]
    /\ fn' = "run_batch_rating"
    /\ pc' = "batch_loop"
    /\ idx' = 1
    /\ results' = << >>
    /\ UNCHANGED <<ret, tables, model_service, log, calls>>

\* one iteration of the loop whose lookup succeeds: one entry is appended
BatchItem ==
    /\ pc = "batch_loop"
    /\ idx <= Len(batch_slice(arg.customer_ids))
    /\ LET customer_id == batch_slice(arg.customer_ids)[idx]
           customer == fetchone(customer_id)
       IN  /\ results' = Append(results, batch_entry(customer_id, customer))
           /\ tables' = batch_tables_after(tables, customer)
    /\ idx' = idx + 1
    /\ UNCHANGED <<pc, fn, arg, ret, model_service, log, calls>>

\* db.execute raises inside an iteration: the lookup is outside the try
\* block, the exception leaves run_batch_rating and its locals are lost
BatchLookupFails ==
    /\ pc = "batch_loop"
    /\ idx <= Len(batch_slice(arg.customer_ids))
    /\ ret' = [raised |-> "OperationalError"]
    /\ pc' = "done"
    /\ UNCHANGED <<fn, arg, idx, results, tables, model_service, log, calls>>

\* the loop is over: the summary is returned
BatchReturn ==
    /\ pc = "batch_loop"
    /\ idx > Len(batch_slice(arg.customer_ids))
    /\ ret' = [raised |-> "none",
               total_requested |-> Len(arg.customer_ids),
               total_processed |-> Len(results),
               results |-> results]
    /\ pc' = "done"
    /\ UNCHANGED <<fn, arg, idx, results, tables, model_service, log, calls>>

Next ==
    \/ RunEad
    \/ RunLgd
    \/ RunCorporateRating
    \/ RunRetailRating
    \/ PdToGrade
    \/ GetGradeFromPd
    \/ CalculateRwa
    \/ CalculatePricing
    \/ CalculateRaroc
    \/ RunFullAssessment
    \/ BatchStart
    \/ BatchItem
    \/ BatchLookupFails
    \/ BatchReturn

Spec == Init /\ [][Next]_vars

(***************************************************************************)
(* Calls one after another on the shared service: every call reads the     *)
(* tables and the service as the calls before it left them.                *)
(***************************************************************************)

\* model.calculate_score / calculate_lgd / calculate_ead of the model object
\* a field of the service holds; the input dict is unpacked into a new
\* dataclass object, the dict itself is only read
run_model(model_id, input_data) ==
    CASE model_id = "MDL_CORP_RATING" -> corporate_calculate_score(input_data)
      [] model_id = "MDL_RETAIL_RATING" -> retail_calculate_score(input_data)
      [] model_id = "MDL_LGD" -> calculate_lgd(input_data)
      [] model_id = "MDL_EAD" -> calculate_ead(input_data)

\* CreditModelService.run_corporate_rating
run_corporate_rating(input_data) ==
    run_model(model_service.corp_rating_model, input_data)

\* CreditModelService.run_retail_rating
run_retail_rating(input_data) ==
    run_model(model_service.retail_rating_model, input_data)

\* CreditModelService.run_lgd
run_lgd(input_data) == run_model(model_service.lgd_model, input_data)

\* CreditModelService.run_ead
run_ead(input_data) == run_model(model_service.ead_model, input_data)

\* the result of calling the model function f with the input i
model_call(f, i) ==
    CASE f = "run_corporate_rating" -> run_corporate_rating(i)
      [] f = "run_retail_rating" -> run_retail_rating(i)
      [] f = "run_lgd" -> run_lgd(i)
      [] f = "run_ead" -> run_ead(i)
      [] f = "calculate_rwa" ->
            [raised |-> "none",
             rwa |-> calculate_rwa(i.pd, i.lgd, i.ead, i.maturity_years)]
      [] f = "calculate_raroc" -> calculate_raroc(i)
      [] f = "calculate_pricing" -> calculate_pricing(i)
      [] f = "run_full_assessment" ->
            run_full_assessment(i.customer_type, i.rating_input,
                                i.lgd_input, i.ead_input)

\* the tables t after calling the model function f with the input i
tables_after_call(t, f, i) ==
    CASE f = "run_corporate_rating" -> corporate_tables_after(t, i)
      [] f = "run_retail_rating" -> retail_tables_after(t, i)
      [] f = "run_lgd" -> lgd_tables_after(t, i)
      [] f = "run_ead" -> ead_tables_after(t, i)
      [] f = "calculate_pricing" -> pricing_tables_after(t, i)
      [] f = "run_full_assessment" ->
            assessment_tables_after(t, i.customer_type, i.rating_input,
                                    i.lgd_input, i.ead_input)
      [] OTHER -> t

\* the inputs of the repeated calls: for every model function a few records
\* of its input class, with keys inside and outside the tables
RepeatCorporates ==
    [total_assets : {100}, total_liabilities : {60}, total_equity : {40},
     sales : {80}, operating_income : {8}, net_income : {5}, ebitda : {12},
     interest_expense : {2}, current_assets : {30}, current_liabilities : {20},
     cash_and_equivalents : {10}, years_in_business : {15},
     industry_code : {"IND001", "IND009"}, is_listed : {FALSE},
     has_external_audit : {TRUE}, ceo_experience_years : {10},
     months_with_bank : {12}, overdraft_count_12m : {0},
     max_overdraft_days : {0}]
RepeatRetails ==
    [annual_sales : {50}, years_in_business : {10}, industry_code : {"IND003"},
     owner_credit_score : {950}, total_debt : {6}, monthly_income : {1},
     months_with_bank : {60}, average_balance : {20},
     overdraft_count_12m : {0}, max_overdraft_days : {0},
     has_collateral : {FALSE}, collateral_value : {0}]
RepeatLgdInputs ==
    [exposure_amount : {MaxAmount}, collateral_type : {"REAL_ESTATE", "PATENT"},
     collateral_value : {1}, seniority : {"SENIOR"}, industry_code : {"IND009"},
     economic_cycle : {"RECESSION"}]
RepeatEadInputs ==
    [committed_amount : {MaxAmount}, outstanding_amount : {1},
     facility_type : {"GUARANTEE"}, months_to_maturity : {12},
     utilization_history : {<< >>}, customer_rating : {"B-", "NR"},
     is_distressed : {FALSE}]
RepeatAssessments ==
    [customer_type : {"CORPORATE"},
     rating_input : {i \in RepeatCorporates : i.industry_code = "IND009"},
     lgd_input : {i \in RepeatLgdInputs : i.collateral_type = "REAL_ESTATE"},
     ead_input : {i \in RepeatEadInputs : i.customer_rating = "B-"}]
RepeatCalls ==
    [fn : {"run_corporate_rating"}, input : RepeatCorporates]
        \cup [fn : {"run_retail_rating"}, input : RepeatRetails]
        \cup [fn : {"run_lgd"}, input : RepeatLgdInputs]
        \cup [fn : {"run_ead"}, input : RepeatEadInputs]
        \cup [fn : {"calculate_rwa"},
              input : [pd : {11500}, lgd : {450000}, ead : {Fx(1)},
                       maturity_years : {2500000}]]
        \cup [fn : {"calculate_raroc"},
              input : [amount : {Fx(1)}, rate : {50000}, ftp_rate : {30000},
                       pd : {11500}, lgd : {450000}, tenor_years : {2500000},
                       opex_rate : {5000}]]
        \cup [fn : {"calculate_pricing"},
              input : [pd : {11500}, lgd : {450000}, base_rate : {35000},
                       ftp_spread : {5000}, opex_spread : {2000},
                       target_margin : {10000},
                       strategy_code : {"EXIT", NoStrategy},
                       has_collateral : {FALSE}, hurdle_rate : {120000}]]
        \cup [fn : {"run_full_assessment"}, input : RepeatAssessments]

\* at most MaxCalls calls are made one after another
MaxCalls == 3

\* a model function is called when the calls before it have returned
RepeatCall ==
    /\ pc \in {"idle", "done"}
    /\ Len(log) < MaxCalls
    /\ \E call \in RepeatCalls :
          /\ fn' = call.fn
          /\ arg' = call.input
          /\ ret' = model_call(call.fn, call.input)
          /\ tables' = tables_after_call(tables, call.fn, call.input)
          /\ log' = Append(log, [fn |-> call.fn, arg |-> call.input, ret |-> ret'])
    /\ pc' = "done"
    /\ UNCHANGED <<idx, results, model_service, calls>>

NextRepeat == RepeatCall

SpecRepeat == Init /\ [][NextRepeat]_vars

(***************************************************************************)
(* Concurrent calls on the shared service.  The endpoints of               *)
(* api/model_inference.py all use the one module-level model_service, so   *)
(* requests served at the same time run its methods side by side.  A       *)
(* method unpacks the caller's dict into a dataclass object of its own,    *)
(* fetches the model from a field of the service and runs it; the steps of *)
(* different callers interleave freely.                                    *)
(***************************************************************************)

\* at most MaxCallers requests are served at the same time
MaxCallers == 2

Callers == 1..MaxCallers

\* the methods of CreditModelService that run one model
ServiceMethods == {"run_corporate_rating", "run_retail_rating", "run_lgd", "run_ead"}

ConcurrentCalls == {call \in RepeatCalls : call.fn \in ServiceMethods}

\* the field of the service a method fetches its model from
model_field(f) ==
    CASE f = "run_corporate_rating" -> "corp_rating_model"
      [] f = "run_retail_rating" -> "retail_rating_model"
      [] f = "run_lgd" -> "lgd_model"
      [] f = "run_ead" -> "ead_model"

\* the module is imported: the service exists and no request is being served
InitConcurrent ==
    /\ pc = "idle"
    /\ fn = "none"
    /\ arg = [none |-> TRUE]
    /\ ret = [raised |-> "pending"]
    /\ idx = 0
    /\ results = << >>
    /\ tables = TablesAtImport
    /\ model_service = ServiceAtImport
    /\ log = << >>
    /\ calls = [c \in Callers |-> [pc |-> "idle"]]

\* what the steps of a concurrent call leave alone
single_call_vars == <<pc, fn, arg, ret, idx, results, log>>

\* caller c calls a method with its input dict; given keeps the dict as the
\* caller passed it
MethodCalled(c) ==
    /\ calls[c].pc = "idle"
    /\ \E call \in ConcurrentCalls :
          calls' = [calls EXCEPT ![c] = [pc |-> "called",
                                         fn |-> call.fn,
                                         input_data |-> call.input,
                                         given |-> call.input]]
    /\ UNCHANGED <<single_call_vars, tables, model_service>>

\* XInput(**input_data): the dict is read into a new object local to the call
InputUnpacked(c) ==
    /\ calls[c].pc = "called"
    /\ calls' = [calls EXCEPT ![c] =
                    [pc |-> "unpacked", fn |-> @.fn, input_data |-> @.input_data,
                     given |-> @.given, unpacked |-> @.input_data]]
    /\ UNCHANGED <<single_call_vars, tables, model_service>>

\* self.<model>: the model is fetched from the service
ModelFetched(c) ==
    /\ calls[c].pc = "unpacked"
    /\ calls' = [calls EXCEPT ![c] =
                    [pc |-> "fetched", fn |-> @.fn, input_data |-> @.input_data,
                     given |-> @.given, unpacked |-> @.unpacked,
                     model |-> model_service[model_field(@.fn)]]]
    /\ UNCHANGED <<single_call_vars, tables, model_service>>

\* the model runs on the unpacked input, reading the tables, and the method
\* returns its result
ModelReturned(c) ==
    /\ calls[c].pc = "fetched"
    /\ calls' = [calls EXCEPT ![c] =
                    [pc |-> "returned", fn |-> @.fn, input_data |-> @.input_data,
                     given |-> @.given,
                     result |-> run_model(@.model, @.unpacked)]]
    /\ tables' = tables_after_call(tables, calls[c].fn, calls[c].unpacked)
    /\ UNCHANGED <<single_call_vars, model_service>>

NextConcurrent ==
    \E c \in Callers :
        \/ MethodCalled(c)
        \/ InputUnpacked(c)
        \/ ModelFetched(c)
        \/ ModelReturned(c)

SpecConcurrent == InitConcurrent /\ [][NextConcurrent]_vars

Returned(f) == pc = "done" /\ fn = f /\ ret.raised = "none"

(***************************************************************************)
(* Claims.                                                                 *)
(***************************************************************************)

\* the CCF the adjustment factors give before clamping and the term-loan rule
RawCcf(r) ==
    FxMul(FxMul(FxMul(FxMul(r.adjustments.base_ccf, r.adjustments.rating_adj),
                      r.adjustments.maturity_adj), r.adjustments.utilization_adj),
          r.adjustments.distress_adj)

\* C1: a TERM_LOAN call of calculate_ead returns ead = committed_amount and
\* ccf = 1.00, whatever the outstanding amount, utilization history, customer
\* rating, maturity and distress flag are.
C1_TermLoanEadIsCommitted ==
    (pc = "done" /\ fn = "calculate_ead" /\ arg.facility_type = "TERM_LOAN")
        => /\ ret.raised = "none"
           /\ ret.ead = Fx(arg.committed_amount)
           /\ ret.ccf = Scale

\* a term loan drawn beyond its commitment, distressed, with a history and a
\* rating whose adjustment is not 1: the general formula would give another EAD
C1_Witness ==
    /\ Returned("calculate_ead")
    /\ arg.facility_type = "TERM_LOAN"
    /\ arg.outstanding_amount > arg.committed_amount
    /\ arg.is_distressed
    /\ arg.utilization_history # <<>>
    /\ RawCcf(ret) # Scale
    /\ ret.ead = Fx(arg.committed_amount)

\* C2: calculate_lgd returns lgd and downturn_lgd in [0.05, 0.95] with
\* downturn_lgd >= lgd, for every input.
C2_LgdBounds ==
    (pc = "done" /\ fn = "calculate_lgd")
        => /\ ret.raised = "none"
           /\ 50000 <= ret.lgd /\ ret.lgd <= 950000
           /\ 50000 <= ret.downturn_lgd /\ ret.downturn_lgd <= 950000
           /\ ret.downturn_lgd >= ret.lgd

\* an LGD whose 25% uplift would pass 95% and is capped there
C2_Witness ==
    /\ Returned("calculate_lgd")
    /\ ret.lgd < 950000
    /\ FxMul(ret.lgd, 1250000) > 950000
    /\ ret.downturn_lgd = 950000

\* C3: the effective ccf calculate_ead returns lies in [0.10, 1.00] for every
\* combination of facility type and adjustment factors.
C3_CcfBounds ==
    (pc = "done" /\ fn = "calculate_ead")
        => /\ ret.raised = "none"
           /\ 100000 <= ret.ccf /\ ret.ccf <= Scale

\* a facility other than a term loan whose factors multiply to more than 1.00
C3_Witness ==
    /\ Returned("calculate_ead")
    /\ arg.facility_type # "TERM_LOAN"
    /\ RawCcf(ret) > Scale
    /\ ret.ccf = Scale

RatingFns == {"corporate_calculate_score", "retail_calculate_score"}

\* the call carries an enumeration value that is in no configured table
UnknownEnum ==
    \/ fn \in RatingFns /\ arg.industry_code \notin DOMAIN INDUSTRY_RISK
    \/ /\ fn = "calculate_lgd"
       /\ \/ arg.collateral_type \notin DOMAIN COLLATERAL_RECOVERY_RATES
          \/ arg.seniority \notin DOMAIN SENIORITY_ADJUSTMENTS
          \/ arg.economic_cycle \notin DOMAIN CYCLE_ADJUSTMENTS
          \/ arg.industry_code \notin DOMAIN INDUSTRY_RISK
    \/ fn = "calculate_ead" /\ arg.facility_type \notin DOMAIN BASE_CCF
    \/ /\ fn = "calculate_pricing"
       /\ arg.strategy_code \notin DOMAIN STRATEGY_PRICING_ADJ \cup {NoStrategy}

\* C4: an unknown enumeration value (industry code, collateral type, facility
\* type, economic cycle, seniority, strategy code) passed to the rating, LGD,
\* EAD or pricing functions is rejected with an error; no numeric result is
\* returned for it.
C4_UnknownEnumRejected ==
    (pc = "done" /\ UnknownEnum) => ret.raised # "none"

\* C5: degenerate but valid inputs never raise: with a zero denominator the
\* corporate rating, retail rating, LGD and EAD functions return a result
\* computed from the fallback constant of the ratio.
C5_DegenerateInputsUseFallbacks ==
    /\ (pc = "done" /\ fn \in RatingFns \cup {"calculate_lgd", "calculate_ead"})
           => ret.raised = "none"
    /\ Returned("corporate_calculate_score")
           => LET d == ret.components.financial.details
              IN  /\ arg.total_equity = 0
                         => d.debt_ratio.raw = 5000000 /\ d.roe.raw = 0
                  /\ arg.current_liabilities = 0
                         => /\ d.current_ratio.raw = 1000000
                            /\ d.cash_ratio.raw = 500000
                  /\ arg.interest_expense = 0
                         => d.interest_coverage.raw = 10000000
                  /\ arg.total_assets = 0
                         => d.roa.raw = 0 /\ d.sales_growth.raw = 500000
                  /\ arg.sales = 0
                         => d.operating_margin.raw = 0 /\ d.ebitda_margin.raw = 0
    /\ (Returned("retail_calculate_score") /\ arg.monthly_income = 0)
           => ret.components.dti_score = Fx(20)
    /\ (Returned("calculate_lgd") /\ arg.exposure_amount = 0)
           => ret.components.base_lgd = 750000
    /\ (Returned("calculate_ead") /\ arg.committed_amount = 0)
           => ret.utilization_rate = 0

\* a corporate rating of a firm whose five ratio denominators are all zero
C5_Witness ==
    /\ Returned("corporate_calculate_score")
    /\ arg.total_equity = 0
    /\ arg.current_liabilities = 0
    /\ arg.interest_expense = 0
    /\ arg.total_assets = 0
    /\ arg.sales = 0
    /\ ret.components.financial.details.debt_ratio.raw = 5000000

\* C6: every PD of a RatingResult of either variant, pd / ttc_pd and
\* pit_pd = ttc_pd * industry risk multiplier, lies in [0.0002, 1.0].
C6_EveryPdInRange ==
    (pc = "done" /\ fn \in RatingFns /\ ret.raised = "none")
        => /\ 200 <= ret.pd /\ ret.pd <= Scale
           /\ 200 <= ret.ttc_pd /\ ret.ttc_pd <= Scale
           /\ 200 <= ret.pit_pd /\ ret.pit_pd <= Scale

\* C7: for a RatingResult of either variant the returned pd never exceeds the
\* reference PD of the returned grade times the tolerance multiplier 1.3.
C7_GradeCoversPd ==
    (pc = "done" /\ fn \in RatingFns /\ ret.raised = "none")
        => ret.pd <= FxMul(GradePd(ret.grade), 1300000)

\* the grade strings of the two grade tables
GradeStrings == {RatingGrade[i].grade_str : i \in 1..Len(RatingGrade)}
MapGradeStrings == {GRADE_PD_MAP[i][1] : i \in 1..Len(GRADE_PD_MAP)}

\* C8: the grade <-> PD mapping is total and consistent: every PD in
\* [0.0002, 1.0] maps to one grade of the enumeration, the reference PDs are
\* strictly increasing from the best grade to the worst, and a larger PD never
\* maps to a better grade than a smaller PD.
C8_GradeMappingTotalAndMonotone ==
    /\ \A i \in 1..(Len(RatingGrade) - 1) :
           /\ RatingGrade[i].pd < RatingGrade[i + 1].pd
           /\ RatingGrade[i].notch < RatingGrade[i + 1].notch
    /\ \A i \in 1..(Len(GRADE_PD_MAP) - 1) :
           GRADE_PD_MAP[i][2] < GRADE_PD_MAP[i + 1][2]
    /\ (pc = "done" /\ fn = "_pd_to_grade" /\ arg.pd >= 200)
           => /\ ret.grade \in GradeStrings
              /\ \A q \in PdGrid :
                     (200 <= q /\ q <= arg.pd)
                         => Notch(_pd_to_grade(q)) <= Notch(ret.grade)
    /\ (pc = "done" /\ fn = "get_grade_from_pd" /\ arg.pd >= 200)
           => /\ ret.grade \in MapGradeStrings
              /\ \A q \in PdGrid :
                     (200 <= q /\ q <= arg.pd)
                         => Notch(get_grade_from_pd(q)) <= Notch(ret.grade)

\* a PD inside the scale that maps to a middle grade, with a smaller PD of
\* the grid mapping to a strictly better grade
C8_Witness ==
    /\ Returned("_pd_to_grade")
    /\ ret.grade \notin {"AAA", "D"}
    /\ \E q \in PdGrid :
           200 <= q /\ q < arg.pd /\ Notch(_pd_to_grade(q)) < Notch(ret.grade)

\* K * 12.5 * EAD of a calculate_rwa call, before the floor
RawRwa(i) ==
    FxMul(FxMul(maturity_adjusted_k(capital_k(i.pd, i.lgd), maturity_b(i.pd),
                                    i.maturity_years), 12500000), i.ead)

\* C9: calculate_rwa returns a value >= 0 for every input; when K * 12.5 * EAD
\* is negative the result is floored at 0.
C9_RwaNonNegative ==
    (pc = "done" /\ fn = "calculate_rwa")
        => /\ ret.raised = "none"
           /\ ret.rwa >= 0
           /\ (RawRwa(arg) < 0 => ret.rwa = 0)

\* a call whose K * 12.5 * EAD is negative (PD = 1 makes K negative)
C9_Witness ==
    /\ Returned("calculate_rwa")
    /\ RawRwa(arg) < 0
    /\ ret.rwa = 0

\* C10: calculate_rwa is monotone non-decreasing in lgd for fixed pd, ead >= 0
\* and maturity, and linear in ead: RWA(pd, lgd, c * ead, M) = c * RWA(pd, lgd,
\* ead, M) for every c >= 0.
C10_RwaMonotoneInLgdLinearInEad ==
    (pc = "done" /\ fn = "calculate_rwa")
        => /\ ret.raised = "none"
           /\ \A lgd2 \in RwaLgds :
                  lgd2 >= arg.lgd
                      => calculate_rwa(arg.pd, lgd2, arg.ead, arg.maturity_years)
                             >= ret.rwa
           /\ \A c \in 0..MaxMultiple :
                  calculate_rwa(arg.pd, arg.lgd, c * arg.ead, arg.maturity_years)
                      = c * ret.rwa

\* a call with a positive RWA that a larger LGD raises and a doubled EAD doubles
C10_Witness ==
    /\ Returned("calculate_rwa")
    /\ ret.rwa > 0
    /\ \E lgd2 \in RwaLgds :
           /\ lgd2 > arg.lgd
           /\ calculate_rwa(arg.pd, lgd2, arg.ead, arg.maturity_years) > ret.rwa
    /\ calculate_rwa(arg.pd, arg.lgd, 2 * arg.ead, arg.maturity_years) = 2 * ret.rwa

\* the RWA of the returned call is at least the RWA of every smaller PD of the
\* grid from 0.0003 on, when the call's own PD is at most hi
RwaMonotoneInPdUpTo(hi) ==
    (pc = "done" /\ fn = "calculate_rwa" /\ 300 <= arg.pd /\ arg.pd <= hi)
        => /\ ret.raised = "none"
           /\ \A p1 \in RwaPds :
                  (300 <= p1 /\ p1 < arg.pd)
                      => calculate_rwa(p1, arg.lgd, arg.ead, arg.maturity_years)
                             <= ret.rwa

\* C11 as stated: for all PDs p1 < p2 in [0.0003, 0.5] with the same lgd, ead
\* and maturity, calculate_rwa(p1, ...) <= calculate_rwa(p2, ...).
C11_RwaMonotoneInPd == RwaMonotoneInPdUpTo(500000)

\* C11 amended: for all PDs p1 < p2 in [0.0003, 0.25] with the same lgd, ead
\* and maturity (up to 7 years), calculate_rwa(p1, ...) <= calculate_rwa(p2, ...);
\* past the peak of K, between PD 0.26 and 0.31, the RWA decreases in PD.
C11_RwaMonotoneInPdBelowPeak == RwaMonotoneInPdUpTo(250000)

\* a call at PD 0.25 whose RWA is strictly above the RWA at a smaller PD
C11_Witness ==
    /\ Returned("calculate_rwa")
    /\ arg.pd = 250000
    /\ ret.rwa > 0
    /\ \E p1 \in RwaPds :
           /\ 300 <= p1 /\ p1 < arg.pd
           /\ calculate_rwa(p1, arg.lgd, arg.ead, arg.maturity_years) < ret.rwa

\* C12: calculate_raroc never faults on division: raroc = net_income /
\* economic_capital when the economic capital is positive and 0 when it is 0,
\* rorwa = net_income / rwa when rwa > 0 and 0 otherwise, net_income =
\* interest_revenue - funding_cost - opex - expected_loss, and with pd = 0 the
\* expected loss is 0.
C12_RarocNeverFaults ==
    (pc = "done" /\ fn = "calculate_raroc")
        => /\ ret.raised = "none"
           /\ ret.economic_capital >= 0 /\ ret.rwa >= 0
           /\ ret.economic_capital > 0
                  => ret.raroc = FxDiv(ret.net_income, ret.economic_capital)
           /\ ret.economic_capital = 0 => ret.raroc = 0
           /\ ret.rwa > 0 => ret.rorwa = FxDiv(ret.net_income, ret.rwa)
           /\ ret.rwa = 0 => ret.rorwa = 0
           /\ ret.net_income =
                  ret.interest_revenue - ret.funding_cost - ret.opex
                      - ret.expected_loss
           /\ ret.interest_revenue = FxMul(arg.amount, arg.rate)
           /\ arg.pd = 0 => ret.expected_loss = 0

\* a call with a positive net income whose economic capital and RWA are 0
C12_Witness ==
    /\ Returned("calculate_raroc")
    /\ ret.economic_capital = 0
    /\ ret.rwa = 0
    /\ ret.net_income > 0
    /\ ret.raroc = 0

\* C13: calculate_pricing decomposes the rate: final_rate = base_rate +
\* ftp_spread + credit_spread + opex_spread + target_margin + strategy_adj +
\* collateral_adj, with credit_spread = el_spread + ul_spread, el_spread =
\* pd * lgd, ul_spread = el_spread * 0.5 * hurdle_rate, strategy_adj the table's
\* signed basis points / 10000 (0 without a strategy code), collateral_adj =
\* -30bp exactly when has_collateral, and system_rate = final_rate -
\* strategy_adj - collateral_adj.
C13_PricingDecomposition ==
    (pc = "done" /\ fn = "calculate_pricing")
        => /\ ret.raised = "none"
           /\ ret.final_rate =
                  arg.base_rate + arg.ftp_spread + ret.credit_spread
                      + arg.opex_spread + arg.target_margin + ret.strategy_adj
                      + ret.collateral_adj
           /\ ret.credit_spread = ret.el_spread + ret.ul_spread
           /\ ret.el_spread = FxMul(arg.pd, arg.lgd)
           /\ ret.ul_spread = FxMul(FxMul(ret.el_spread, 500000), arg.hurdle_rate)
           /\ arg.strategy_code \in DOMAIN STRATEGY_PRICING_ADJ
                  => ret.strategy_adj * 10000
                         = STRATEGY_PRICING_ADJ[arg.strategy_code] * Scale
           /\ arg.strategy_code = NoStrategy => ret.strategy_adj = 0
           /\ ret.collateral_adj = (IF arg.has_collateral THEN -3000 ELSE 0)
           /\ ret.system_rate
                  = ret.final_rate - ret.strategy_adj - ret.collateral_adj
           /\ ret.base_rate = arg.base_rate /\ ret.ftp_spread = arg.ftp_spread
           /\ ret.opex_spread = arg.opex_spread
           /\ ret.target_margin = arg.target_margin

\* an uncollateralized loan of a customer under the EXIT strategy: a positive
\* credit spread, +100bp of strategy adjustment and no collateral discount
C13_Witness ==
    /\ Returned("calculate_pricing")
    /\ arg.strategy_code = "EXIT"
    /\ ~arg.has_collateral
    /\ ret.el_spread > 0
    /\ ret.strategy_adj = 10000
    /\ ret.collateral_adj = 0
    /\ ret.final_rate = ret.system_rate + 10000

\* C14: run_full_assessment is pure sequencing: it runs the rating variant
\* selected by customer_type, then the LGD model, then the EAD model, and its
\* risk_metrics derive only from those three results: pd = rating.pd, lgd =
\* the LGD result's lgd, ead = the EAD result's ead, el = pd * lgd * ead, rwa =
\* calculate_rwa(pd, lgd, ead), el_rate = el / ead and rw = rwa / ead when
\* ead > 0, and both 0 when ead = 0.
C14_FullAssessmentIsSequencing ==
    (pc = "done" /\ fn = "run_full_assessment")
        => /\ ret.raised = "none"
           /\ arg.customer_type = "CORPORATE"
                  => ret.rating = corporate_calculate_score(arg.rating_input)
           /\ arg.customer_type = "RETAIL"
                  => ret.rating = retail_calculate_score(arg.rating_input)
           /\ ret.lgd = calculate_lgd(arg.lgd_input)
           /\ ret.ead = calculate_ead(arg.ead_input)
           /\ LET m == ret.risk_metrics
              IN  /\ m.pd = ret.rating.pd
                  /\ m.lgd = ret.lgd.lgd
                  /\ m.ead = ret.ead.ead
                  /\ m.el = FxMul(FxMul(m.pd, m.lgd), m.ead)
                  /\ m.rwa = calculate_rwa(m.pd, m.lgd, m.ead, 2500000)
                  /\ m.ead > 0 => /\ m.el_rate = FxDiv(m.el, m.ead)
                                  /\ m.rw = FxDiv(m.rwa, m.ead)
                  /\ m.ead = 0 => m.el_rate = 0 /\ m.rw = 0

\* an assessment of a corporate customer in an industry with a risk
\* multiplier other than 1, with a positive EAD and positive risk weight
C14_Witness ==
    /\ Returned("run_full_assessment")
    /\ arg.customer_type = "CORPORATE"
    /\ ret.rating.pit_pd # ret.rating.pd
    /\ ret.risk_metrics.ead > 0
    /\ ret.risk_metrics.rw > 0
    /\ ret.risk_metrics.el_rate > 0

\* number of customer ids a batch call is to process: min(N, 10)
ToProcess == Min(Len(arg.customer_ids), 10)

\* C15: in run_batch_rating a failure while processing one customer id
\* (customer not found, conversion error, model exception or lookup failure)
\* never aborts the remaining items: the call returns a result list with a
\* success or failure entry for that item and for every other processed item.
C15_BatchFailureIsolated ==
    (pc = "done" /\ fn = "run_batch_rating")
        => /\ ret.raised = "none"
           /\ Len(ret.results) = ToProcess
           /\ \A j \in 1..ToProcess :
                  /\ ret.results[j].customer_id = arg.customer_ids[j]
                  /\ ret.results[j].success \in BOOLEAN

\* C16: for a request of N customer ids run_batch_rating processes the first
\* min(N, 10) ids and no more, its results hold one entry per processed id in
\* request order, and the summary it returns reports total_requested = N and
\* total_processed = min(N, 10).
C16_BatchCapAndOrder ==
    /\ (pc = "batch_loop" /\ fn = "run_batch_rating")
           => /\ idx <= ToProcess + 1
              /\ Len(results) = idx - 1
              /\ \A j \in 1..Len(results) :
                     results[j].customer_id = arg.customer_ids[j]
    /\ Returned("run_batch_rating")
           => /\ ret.total_requested = Len(arg.customer_ids)
              /\ ret.total_processed = ToProcess
              /\ Len(ret.results) = ToProcess
              /\ \A j \in 1..ToProcess :
                     ret.results[j].customer_id = arg.customer_ids[j]

\* a request of more than 10 ids has returned: 10 entries, failures among them
C16_Witness ==
    /\ Returned("run_batch_rating")
    /\ Len(arg.customer_ids) > 10
    /\ ret.total_processed = 10
    /\ \E j \in 1..10 : ret.results[j].success
    /\ \E j \in 1..10 : ~ret.results[j].success

\* position of the first grade, scanning AAA to D, that satisfies Covers
FirstGrade(Covers(_)) ==
    IF \E i \in 1..Len(RatingGrade) : Covers(i)
    THEN RatingGrade[CHOOSE i \in 1..Len(RatingGrade) :
                         Covers(i) /\ \A j \in 1..(i - 1) : ~Covers(j)].grade_str
    ELSE "D"

\* C19 as stated: the corporate grade is the first grade, scanning AAA to D,
\* whose reference PD is at least 1.3 times the computed PD.
C19_FirstGradeWithPdAtLeast13TimesComputed ==
    Returned("_pd_to_grade")
        => LET Covers(i) == 10 * RatingGrade[i].pd >= 13 * arg.pd
           IN  ret.grade = FirstGrade(Covers)

\* C19 amended: the corporate grade is the first grade, scanning AAA to D,
\* whose reference PD times 1.3 is at least the computed PD, and D when no
\* grade is.
C19_FirstGradeWithin30PercentSlack ==
    Returned("_pd_to_grade")
        => LET Covers(i) == 13 * RatingGrade[i].pd >= 10 * arg.pd
           IN  ret.grade = FirstGrade(Covers)

\* a PD above the AAA reference PD but inside its 30% slack is graded AAA
C19_Witness ==
    /\ Returned("_pd_to_grade")
    /\ arg.pd > RatingGrade[1].pd
    /\ 10 * arg.pd <= 13 * RatingGrade[1].pd
    /\ ret.grade = "AAA"

\* the nearest integer to a fixed-point value, ties to the even neighbour
RoundToNearest(x) ==
    LET q == x \div Scale
        r == x % Scale
    IN  IF r > Scale \div 2 \/ (r = Scale \div 2 /\ q % 2 = 1) THEN q + 1 ELSE q

\* C20: the corporate 1000-point score is the clamped value
\* clamp((1 - PD) * 1000, 100, 1000) rounded to the nearest integer, and it
\* lies in [100, 1000].
C20_ScoreIsRoundedClamp ==
    Returned("corporate_calculate_score")
        => /\ ret.score_1000 =
                  RoundToNearest(Max(Fx(100), Min(Fx(1000), (Scale - ret.pd) * 1000)))
           /\ ret.score_1000 >= 100
           /\ ret.score_1000 <= 1000

\* C17: calling a model function (corporate rating, retail rating, LGD, EAD,
\* calculate_rwa, calculate_raroc, calculate_pricing, run_full_assessment)
\* twice with identical input yields identical output, whatever calls were
\* made in between.
C17_RepeatedCallSameOutput ==
    \A j \in 1..Len(log) : \A k \in 1..Len(log) :
        (log[j].fn = log[k].fn /\ log[j].arg = log[k].arg)
            => log[j].ret = log[k].ret

\* a call was repeated after a call of another function, and its lookups
\* found table entries that differ from the defaults of the lookups
C17_Witness ==
    /\ Len(log) = 3
    /\ log[1].fn = "run_ead" /\ log[3].fn = "run_ead"
    /\ log[1].arg = log[3].arg
    /\ log[2].fn = "run_lgd"
    /\ log[3].ret.raised = "none"
    /\ log[3].ret.adjustments.base_ccf = BASE_CCF["GUARANTEE"]
    /\ log[3].ret.adjustments.rating_adj = RATING_CCF_ADJ["B-"]

\* C18: under any interleaving of concurrent calls on the shared
\* CreditModelService no call changes the process-wide tables, the fields of
\* the service or the input record its caller passed, and every call returns
\* the result it returns when it runs alone on the state built at import.
C18_ConcurrentCallsShareNothingWritten ==
    /\ tables = TablesAtImport
    /\ model_service = ServiceAtImport
    /\ \A c \in DOMAIN calls :
          /\ calls[c].pc # "idle" => calls[c].input_data = calls[c].given
          /\ calls[c].pc = "returned"
                 => calls[c].result = model_call(calls[c].fn, calls[c].given)

\* one caller returned while the other was between its steps, and both read
\* the same table through a key it does not hold
C18_Witness ==
    /\ DOMAIN calls = Callers
    /\ calls[1].pc = "returned" /\ calls[1].fn = "run_ead"
    /\ calls[1].given.customer_rating = "NR"
    /\ calls[1].result.raised = "none"
    /\ calls[2].pc = "fetched" /\ calls[2].fn = "run_ead"
    /\ calls[2].given.customer_rating = "NR"

\* the number of brackets (low, high) of a table with low <= value < high
BracketsHolding(value, brackets) ==
    Cardinality({b \in 1..Len(brackets) :
                    brackets[b][1] <= value /\ value < brackets[b][2]})

\* the weighted sum of the six sub-scores a retail result reports
WeightedComponents(c) ==
    FxMul(c.sales_score, WEIGHTS.sales) + FxMul(c.years_score, WEIGHTS.years)
        + FxMul(c.cb_score, WEIGHTS.cb_score) + FxMul(c.dti_score, WEIGHTS.dti)
        + FxMul(c.relationship_score, WEIGHTS.relationship)
        + FxMul(c.behavioral_score, WEIGHTS.behavioral)

\* C21: for every retail input with non-negative fields each of the six
\* sub-scores lies in [0, 100], the six weights sum to 1.0, the weighted sum
\* taken before the industry adjustment lies in [0, 100], and the values of
\* sales, years and DTI each fall in exactly one bracket of their table.
C21_RetailScorecardBounds ==
    Returned("retail_calculate_score")
        => /\ \A k \in DOMAIN ret.components :
                  ret.components[k] >= 0 /\ ret.components[k] <= Fx(100)
           /\ WEIGHTS.sales + WEIGHTS.years + WEIGHTS.cb_score + WEIGHTS.dti
                  + WEIGHTS.relationship + WEIGHTS.behavioral = Scale
           /\ WeightedComponents(ret.components) >= 0
           /\ WeightedComponents(ret.components) <= Fx(100)
           /\ BracketsHolding(arg.annual_sales, SCORECARD.sales_bracket) = 1
           /\ BracketsHolding(arg.years_in_business, SCORECARD.years_bracket) = 1
           /\ BracketsHolding(dti(arg), SCORECARD.dti_bracket) = 1

\* five years with the bank and a high balance: the bonus meets the cap
C21_Witness ==
    /\ Returned("retail_calculate_score")
    /\ arg.months_with_bank = 60 /\ arg.average_balance > 10
    /\ ret.components.relationship_score = Fx(100)
    /\ arg.annual_sales = 1000 /\ ret.components.sales_score = Fx(100)
    /\ WeightedComponents(ret.components) > Fx(90)

\* C22: the retail composite score stays on its scale after the division by
\* the industry risk multiplier and the collateral bonus:
\* 0 <= score_100 <= 100 and 0 <= score_1000 <= 1000.
C22_RetailScoreOnScale ==
    Returned("retail_calculate_score")
        => /\ ret.score_100 >= 0 /\ ret.score_100 <= Fx(100)
           /\ ret.score_1000 >= 0 /\ ret.score_1000 <= 1000

\* C23: calculate_rwa floors pd at a small positive constant before ln(pd) and
\* before the quantile call, so the quantile is never invoked with p outside
\* (0, 1); a p outside (0, 1) that reaches the quantile is a fatal error, not
\* masked by a substitute value.
C23_QuantileDomainProtected ==
    (pc = "done" /\ fn = "calculate_rwa")
        => /\ floor_pd_for_log(arg.pd) > 0
           /\ norm_inv_argument(arg.pd) > 0
           /\ norm_inv_argument(arg.pd) < Scale
           /\ (norm_inv_argument(arg.pd) <= 0 \/ norm_inv_argument(arg.pd) >= Scale)
                  => ret.raised /= "none"

\* maturity clamped to the band [1, 5] years
ClampedMaturity(maturity_years) == Max(Fx(1), Min(Fx(5), maturity_years))

\* C24: calculate_rwa treats maturity as clamped to [1, 5] years: a maturity
\* below 1 gives the RWA of maturity 1 and a maturity above 5 the RWA of 5.
C24_MaturityClamped ==
    Returned("calculate_rwa")
        => ret.rwa = calculate_rwa(arg.pd, arg.lgd, arg.ead,
                                   ClampedMaturity(arg.maturity_years))

\* C25: the corporate rating treats a lower debt ratio as better: with
\* total_equity > 0 and every other input fixed, a larger total_liabilities
\* never gives a lower PD and never gives a better grade.
C25_MoreLiabilitiesNeverBetter ==
    (Returned("corporate_calculate_score") /\ arg.total_equity > 0)
        => \A l \in {60, 250} :
              l >= arg.total_liabilities
                  => LET more == corporate_calculate_score(
                                     [arg EXCEPT !.total_liabilities = l])
                     IN  /\ more.pd >= ret.pd
                         /\ Notch(more.grade) >= Notch(ret.grade)

\* the retail inputs that equal i except that they have no collateral
WithoutCollateral(i) ==
    {[i EXCEPT !.has_collateral = FALSE],
     [i EXCEPT !.collateral_value = 0],
     [i EXCEPT !.has_collateral = FALSE, !.collateral_value = 0]}

\* C26: the retail collateral bonus never hurts: of two retail inputs that
\* differ only in one having collateral (has_collateral with
\* collateral_value > 0), the collateralized one has a composite score >= the
\* other's, a PD <= the other's and a grade that is not worse, for every
\* industry code.
C26_CollateralNeverHurts ==
    (Returned("retail_calculate_score")
        /\ arg.has_collateral /\ arg.collateral_value > 0)
        => \A j \in WithoutCollateral(arg) :
              LET other == retail_calculate_score(j)
              IN  other.raised = "none"
                      => /\ ret.score_100 >= other.score_100
                         /\ ret.score_1000 >= other.score_1000
                         /\ ret.pd <= other.pd
                         /\ Notch(ret.grade) <= Notch(other.grade)

\* C27: LGD is non-increasing in collateral: with a fixed exposure > 0 and a
\* fixed collateral type, seniority, cycle and industry, a larger
\* collateral_value never gives a larger lgd, for every collateral type of
\* the table.
C27_LgdNonIncreasingInCollateral ==
    (Returned("calculate_lgd")
        /\ arg.exposure_amount > 0
        /\ arg.collateral_type \in DOMAIN COLLATERAL_RECOVERY_RATES)
        => \A c \in 0..(MaxAmount + 1) :
              c >= arg.collateral_value
                  => calculate_lgd([arg EXCEPT !.collateral_value = c]).lgd <= ret.lgd

\* C28: the rating adjustment of the EAD model is monotone over the whole
\* grade scale: for a facility that is no term loan and with the other inputs
\* fixed, ccf and ead never decrease as customer_rating worsens along the 20
\* grades AAA ... D.
C28_CcfMonotoneInRating ==
    (Returned("calculate_ead")
        /\ arg.facility_type /= "TERM_LOAN"
        /\ Notch(arg.customer_rating) > 0)
        => \A g \in CustomerRatings :
              Notch(g) >= Notch(arg.customer_rating)
                  => LET worse == calculate_ead([arg EXCEPT !.customer_rating = g])
                     IN  /\ worse.ccf >= ret.ccf
                         /\ worse.ead >= ret.ead

\* C29: grade/PD round trip: get_grade_from_pd(get_pd_from_grade(g)) = g for
\* each of the 16 grades of calculations.GRADE_PD_MAP, and _pd_to_grade of the
\* reference PD of g is g for each of the 20 grades of RatingGrade, so that
\* every grade, D included, is reachable.
C29_GradePdRoundTrip ==
    /\ Returned("get_grade_from_pd")
          => \A i \in 1..Len(GRADE_PD_MAP) :
                arg.pd = get_pd_from_grade(GRADE_PD_MAP[i][1])
                    => ret.grade = GRADE_PD_MAP[i][1]
    /\ Returned("_pd_to_grade")
          => \A i \in 1..Len(RatingGrade) :
                arg.pd = RatingGrade[i].pd => ret.grade = RatingGrade[i].grade_str

\* C30: the EAD never understates the drawn amount: for every input with
\* non-negative amounts and every facility type (TERM_LOAN and
\* outstanding > committed included),
\* outstanding_amount <= ead <= max(committed_amount, outstanding_amount) and
\* ead = components.outstanding + components.undrawn_ead.
C30_EadCoversOutstanding ==
    Returned("calculate_ead")
        => /\ Fx(arg.outstanding_amount) <= ret.ead
           /\ ret.ead <= Max(Fx(arg.committed_amount), Fx(arg.outstanding_amount))
           /\ ret.ead = ret.components.outstanding + ret.components.undrawn_ead

=============================================================================
